---- MODULE Spec2Model ----
(***************************************************************************)
(* Exotel <-> Gemini Live bridge (new_exotel_bridge.py).                   *)
(*                                                                         *)
(* One telephony session: GeminiSession.run, its three pump tasks          *)
(* (continue_receiving_from_exotel, receive_from_gemini,                   *)
(* send_keep_alive_messages), the post-call pipeline started by cleanup(), *)
(* and the TranscriptManager.  A step of a task is the code between two    *)
(* awaits: asyncio runs one task at a time and switches only at an await.  *)
(*                                                                         *)
(* Beside the session: the CallTokenAccumulator (ai_token_tracker.py), the *)
(* extraction of the conversation tokens, and the notification dispatch of *)
(* ActionService.process_call_actions (action_service.py) with the         *)
(* provider it sends through (msg91_provider.py), each from its own        *)
(* initial state.                                                          *)
(***************************************************************************)
EXTENDS Integers, Sequences, FiniteSets, TLC

(* ------------------------------ bounds --------------------------------- *)
\* frames the telephony peer delivers during one call
MaxPeerFrames == 1
\* response objects the LLM stream delivers during one call
MaxResponses == 1
\* response objects with audio the LLM stream delivers on the audio path
MaxAudioResponses == 2
\* sends on the still-open telephony socket that raise
MaxSendFailures == 1
\* expiries of the 30 s keep-alive interval
MaxKeepAliveTicks == 0
\* reads of the open LLM stream that raise
MaxReadErrors == 1
\* add_to_transcript calls in the transcript specification
MaxTurns == 4
\* length of a raw text fragment in the transcript specification
MaxTextLen == 2
\* calls made on one CallTokenAccumulator
MaxAccumulatorCalls == 3
\* usage records one session collects before the extraction
MaxUsageRecords == 2

(* ------------------------- program constants --------------------------- *)
EXOTEL_SAMPLE_RATE == 8000
GEMINI_OUTPUT_SAMPLE_RATE == 24000
buffer_threshold == 3840
min_chunk_size == 3840
\* 2 bytes per sample (16-bit), the width argument of audioop.ratecv
SampleWidth == 2
\* max_retries of GeminiSession.initialize
init_max_retries == 3
\* max_retries of receive_from_gemini
turn_max_retries == 3
\* max_retries of the keep-alive send loop
ka_max_retries == 3
\* max_consecutive_failures of the keep-alive task
max_consecutive_failures == 3
\* positional parameters of transcript_analyzer.analyze_transcript
analyze_transcript_params == 3
\* positional arguments save_transcript_and_analyze passes to it
analyze_transcript_args == 4
\* the granularity and the minimum the telephony peer accepts (bytes)
ExotelGranularity == 320
\* max_retries of the async_retry decorator of the two notification sends
notify_max_retries == 3

(* --------------------------- TranscriptManager -------------------------- *)
Roles == {"user", "assistant"}
Chars == {"a", " "}

RECURSIVE lstrip(_)
lstrip(s) == IF s # <<>> /\ Head(s) = " " THEN lstrip(Tail(s)) ELSE s

RECURSIVE rstrip(_)
rstrip(s) ==
    IF s # <<>> /\ s[Len(s)] = " " THEN rstrip(SubSeq(s, 1, Len(s) - 1)) ELSE s

\* str.strip(): leading and trailing whitespace removed
strip(s) == rstrip(lstrip(s))

\* an append guarded by `if text` alone
add_to_transcript_unstripped(conv, role, text) ==
    IF text # <<>>
    THEN Append(conv, [role |-> role, text |-> strip(text)])
    ELSE conv

\* TranscriptManager.add_to_transcript: `if text and text.strip()` guards
\* the append of the stripped text
add_to_transcript(conv, role, text) ==
    IF text # <<>> /\ strip(text) # <<>>
    THEN Append(conv, [role |-> role, text |-> strip(text)])
    ELSE conv

\* The loop of _merge_consecutive_messages: acc is merged_conversation,
\* cur is <<>> while current_role is None and <<[role, text]>> afterwards.
RECURSIVE merge_loop(_, _, _)
merge_loop(conv, acc, cur) ==
    IF conv = <<>>
    THEN acc \o cur
    ELSE LET m == Head(conv) IN
         IF cur # <<>> /\ m.role = cur[1].role
         THEN merge_loop(Tail(conv), acc,
                         <<[role |-> cur[1].role,
                            text |-> cur[1].text \o <<" ">> \o m.text]>>)
         ELSE merge_loop(Tail(conv), acc \o cur, <<m>>)

\* A merge that joins at most two same-role neighbours and then starts over
RECURSIVE merge_pairs(_, _, _, _)
merge_pairs(conv, acc, cur, joined) ==
    IF conv = <<>>
    THEN acc \o cur
    ELSE LET m == Head(conv) IN
         IF cur # <<>> /\ m.role = cur[1].role /\ ~joined
         THEN merge_pairs(Tail(conv), acc,
                          <<[role |-> cur[1].role,
                             text |-> cur[1].text \o <<" ">> \o m.text]>>,
                             TRUE)
         ELSE merge_pairs(Tail(conv), acc \o cur, <<m>>, FALSE)

merge_consecutive_messages_pairs(conv) == merge_pairs(conv, <<>>, <<>>, FALSE)

\* TranscriptManager._merge_consecutive_messages; an empty conversation
\* returns early and is left as it is
merge_consecutive_messages(conv) ==
    IF conv = <<>> THEN conv ELSE merge_loop(conv, <<>>, <<>>)

(* ------------------------------ audio ----------------------------------- *)
RECURSIVE GCD(_, _)
GCD(a, b) == IF b = 0 THEN a ELSE GCD(b, a % b)

\* Length in bytes of audioop.ratecv(data, 2, 1, src, dst, None)[0] for
\* len(data) = n, n a whole number of frames.  ratecv divides both rates by
\* their gcd, starts with d = -outrate, adds outrate per frame read and
\* writes a frame (d -= inrate) while d >= 0: k frames read give
\* (k-1)*outrate \div inrate + 1 frames written.
ratecv_len(n, src, dst) ==
    LET g == GCD(src, dst)
        inrate == src \div g
        outrate == dst \div g
        frames == n \div SampleWidth
    IN IF frames = 0 THEN 0
       ELSE (((frames - 1) * outrate) \div inrate + 1) * SampleWidth

\* resample_audio, as the length of its result: same rates and invalid rates
\* return the data; ratecv raises on a partial frame and the except branch
\* returns the original audio
resample_audio_len(n, src, dst) ==
    IF src = dst THEN n
    ELSE IF src <= 0 \/ dst <= 0 THEN n
    ELSE IF n % SampleWidth # 0 THEN n
    ELSE ratecv_len(n, src, dst)

\* the padding step of _send_audio_to_exotel
padded_len(n) == IF n < min_chunk_size THEN min_chunk_size ELSE n

(* --------------------------- token accounting --------------------------- *)
\* None, where the code handles an object, and a token count that is None
NoneValue == [none |-> TRUE]
NoCount == -1
\* the model names the callers pass
LiveModel == "gemini-2.5-flash-preview-native-audio-dialog"
FlashModel == "gemini-2.5-flash"

\* d[k] = v on a dict
put(d, k, v) == [x \in DOMAIN d \cup {k} |-> IF x = k THEN v ELSE d[x]]

\* CallTokenAccumulator.__init__: self.tokens = {}
EmptyTokens == [op \in {} |-> NoneValue]

\* the usage metadata handed to add_conversation_tokens: None, or an object
\* with the counts and, for some, response_tokens_details
DetailLists == {<<[modality |-> "AUDIO", token_count |-> 1]>>}
ConversationUsage ==
    {NoneValue} \cup
    [total_token_count : {NoCount, 1, 2}, input_token_count : {0, 1},
     output_token_count : {1}, has_response_tokens_details : {FALSE},
     response_tokens_details : {<<>>}] \cup
    [total_token_count : {NoCount, 1, 2}, input_token_count : {0, 1},
     output_token_count : {1}, has_response_tokens_details : {TRUE},
     response_tokens_details : DetailLists]
\* the usage metadata of a generate_content response, or None
GenerateUsage ==
    {NoneValue} \cup
    [total_token_count : {NoCount, 1, 2}, prompt_token_count : {1},
     candidates_token_count : {1}, thoughts_token_count : {NoCount}]

\* the response_breakdown list of add_conversation_tokens
response_breakdown(details) ==
    [i \in 1..Len(details) |->
        [modality |-> details[i].modality, count |-> details[i].token_count]]

\* the conversation_tokens dict add_conversation_tokens builds
conversation_entry(u, model) ==
    IF u.has_response_tokens_details
    THEN [model |-> model, total_tokens |-> u.total_token_count,
          input_tokens |-> u.input_token_count,
          output_tokens |-> u.output_token_count,
          response_breakdown |-> response_breakdown(u.response_tokens_details)]
    ELSE [model |-> model, total_tokens |-> u.total_token_count,
          input_tokens |-> u.input_token_count,
          output_tokens |-> u.output_token_count]

\* add_conversation_tokens with a later call that replaces the entry
add_conversation_tokens_replace(t, u, model) ==
    IF u = NoneValue THEN t
    ELSE put(t, "conversation", conversation_entry(u, model))

\* add_conversation_tokens: nothing without usage metadata; the first call
\* stores the entry, a later call adds its three counts to the stored entry
\* ("sum if multiple updates").  `+=` with a None count raises TypeError,
\* which the method catches: the entry stays as it was, since total_tokens
\* is the first count added.
add_conversation_tokens(t, u, model) ==
    IF u = NoneValue THEN t
    ELSE IF "conversation" \notin DOMAIN t
    THEN put(t, "conversation", conversation_entry(u, model))
    ELSE LET existing == t["conversation"]
             new == conversation_entry(u, model)
         IN IF existing.total_tokens = NoCount \/ new.total_tokens = NoCount
            THEN t
            ELSE put(t, "conversation",
                     [existing EXCEPT
                        !.total_tokens = @ + new.total_tokens,
                        !.input_tokens = @ + new.input_tokens,
                        !.output_tokens = @ + new.output_tokens])

\* the dict add_analysis_tokens and add_whatsapp_tokens build
generate_entry(u, model) ==
    [model |-> model, total_tokens |-> u.total_token_count,
     prompt_tokens |-> u.prompt_token_count,
     candidates_tokens |-> u.candidates_token_count,
     thoughts_tokens |-> u.thoughts_token_count]

\* add_analysis_tokens with a later call that adds to the stored total
add_analysis_tokens_sum(t, u, model) ==
    IF u = NoneValue THEN t
    ELSE IF \/ "transcript_analysis" \notin DOMAIN t
            \/ u.total_token_count = NoCount
    THEN put(t, "transcript_analysis", generate_entry(u, model))
    ELSE put(t, "transcript_analysis",
             [t["transcript_analysis"] EXCEPT
                !.total_tokens =
                    IF @ = NoCount THEN u.total_token_count
                    ELSE @ + u.total_token_count])

\* add_analysis_tokens: nothing without usage metadata, else the entry is
\* assigned
add_analysis_tokens(t, u, model) ==
    IF u = NoneValue THEN t
    ELSE put(t, "transcript_analysis", generate_entry(u, model))

\* add_whatsapp_tokens: the same on the whatsapp_generation key
add_whatsapp_tokens(t, u, model) ==
    IF u = NoneValue THEN t
    ELSE put(t, "whatsapp_generation", generate_entry(u, model))

\* the loop of get_total_summary over self.tokens.values()
RECURSIVE sum_total_tokens(_, _)
sum_total_tokens(t, ops) ==
    IF ops = {} THEN 0
    ELSE LET op == CHOOSE o \in ops : TRUE
         IN t[op].total_tokens + sum_total_tokens(t, ops \ {op})

\* what a call returns that raises TypeError
TypeError == [raised |-> "TypeError"]

\* get_total_summary that leaves the last operation out of the total
get_total_summary_skip(t) ==
    IF \E op \in DOMAIN t : t[op].total_tokens = NoCount THEN TypeError
    ELSE put(t, "total_tokens_all_operations",
             sum_total_tokens(t, DOMAIN t \ {"whatsapp_generation"}))

\* get_total_summary: dict(self.tokens) with the key
\* total_tokens_all_operations; adding a None total raises TypeError
get_total_summary(t) ==
    IF \E op \in DOMAIN t : t[op].total_tokens = NoCount THEN TypeError
    ELSE put(t, "total_tokens_all_operations",
             sum_total_tokens(t, DOMAIN t))

\* the usage metadata the LLM stream attaches to a response of a session
ReportedUsage ==
    {[total_token_count |-> 3, prompt_token_count |-> 2,
      response_token_count |-> 1,
      prompt_tokens_details |-> <<[modality |-> "AUDIO", token_count |-> 2]>>,
      response_tokens_details |->
          <<[modality |-> "AUDIO", token_count |-> 1]>>]}
\* the usage metadata of the responses whose extraction is checked: counts
\* that are None, details that are missing or empty (<<>>), a detail that is
\* None, modalities in either case and a modality that is neither audio nor
\* text
PromptDetailLists ==
    {<<>>,
     <<[modality |-> "AUDIO", token_count |-> 2]>>,
     <<[modality |-> "text", token_count |-> 1],
       [modality |-> "AUDIO", token_count |-> NoCount]>>}
ResponseDetailLists ==
    {<<>>,
     <<[modality |-> "audio", token_count |-> 1], NoneValue>>,
     <<[modality |-> "VIDEO", token_count |-> 1],
       [modality |-> "TEXT", token_count |-> 2]>>}
SessionUsage ==
    [total_token_count : {NoCount, 3}, prompt_token_count : {2},
     response_token_count : {NoCount, 1},
     prompt_tokens_details : PromptDetailLists,
     response_tokens_details : ResponseDetailLists]

\* int(count) if count is not None else 0
count_of(c) == IF c = NoCount THEN 0 ELSE c

\* str(modality).upper() on the modality names of the records
upper(m) == CASE m = "audio" -> "AUDIO" [] m = "text" -> "TEXT" [] OTHER -> m

\* the loop over the details of one record: the tokens of one modality
RECURSIVE modality_count(_, _)
modality_count(details, modality) ==
    IF details = <<>> THEN 0
    ELSE LET detail == Head(details)
         IN (IF detail # NoneValue /\ upper(detail.modality) = modality
             THEN count_of(detail.token_count) ELSE 0)
            + modality_count(Tail(details), modality)

\* the same loop: the entries appended to all_prompt_details and
\* all_response_details
RECURSIVE detail_entries(_)
detail_entries(details) ==
    IF details = <<>> THEN <<>>
    ELSE LET detail == Head(details)
         IN (IF detail = NoneValue THEN <<>>
             ELSE <<[modality |-> upper(detail.modality),
                     count |-> count_of(detail.token_count)]>>)
            \o detail_entries(Tail(details))

\* the counters of extract_total_conversation_tokens before its loop
ZeroCounters ==
    [total_tokens |-> 0, total_prompt_tokens |-> 0,
     total_response_tokens |-> 0, prompt_audio_tokens |-> 0,
     prompt_text_tokens |-> 0, response_audio_tokens |-> 0,
     response_text_tokens |-> 0, all_prompt_details |-> <<>>,
     all_response_details |-> <<>>]

\* a loop body that keeps the counts of the last record
add_usage_last(c, usage) ==
    [total_tokens |-> count_of(usage.total_token_count),
     total_prompt_tokens |-> count_of(usage.prompt_token_count),
     total_response_tokens |-> count_of(usage.response_token_count),
     prompt_audio_tokens |->
         modality_count(usage.prompt_tokens_details, "AUDIO"),
     prompt_text_tokens |->
         modality_count(usage.prompt_tokens_details, "TEXT"),
     response_audio_tokens |->
         modality_count(usage.response_tokens_details, "AUDIO"),
     response_text_tokens |->
         modality_count(usage.response_tokens_details, "TEXT"),
     all_prompt_details |-> detail_entries(usage.prompt_tokens_details),
     all_response_details |-> detail_entries(usage.response_tokens_details)]

\* the body of the loop over self.conversation_tokens for one record
add_usage(c, usage) ==
    [total_tokens |-> c.total_tokens + count_of(usage.total_token_count),
     total_prompt_tokens |->
         c.total_prompt_tokens + count_of(usage.prompt_token_count),
     total_response_tokens |->
         c.total_response_tokens + count_of(usage.response_token_count),
     prompt_audio_tokens |->
         c.prompt_audio_tokens
             + modality_count(usage.prompt_tokens_details, "AUDIO"),
     prompt_text_tokens |->
         c.prompt_text_tokens
             + modality_count(usage.prompt_tokens_details, "TEXT"),
     response_audio_tokens |->
         c.response_audio_tokens
             + modality_count(usage.response_tokens_details, "AUDIO"),
     response_text_tokens |->
         c.response_text_tokens
             + modality_count(usage.response_tokens_details, "TEXT"),
     all_prompt_details |->
         c.all_prompt_details \o detail_entries(usage.prompt_tokens_details),
     all_response_details |->
         c.all_response_details
             \o detail_entries(usage.response_tokens_details)]

RECURSIVE usage_loop(_, _)
usage_loop(records, c) ==
    IF records = <<>> THEN c
    ELSE usage_loop(Tail(records), add_usage(c, Head(records)))

\* extract_total_conversation_tokens: None without records, else the dict
\* built from the counters (prompt_details and response_details are keys
\* of the dict only when they are not empty)
extract_total_conversation_tokens(records) ==
    IF records = <<>> THEN NoneValue
    ELSE LET c == usage_loop(records, ZeroCounters)
         IN [model |-> LiveModel,
             total_tokens |-> c.total_tokens,
             input_tokens |-> c.total_prompt_tokens,
             output_tokens |-> c.total_response_tokens,
             prompt_tokens |-> c.total_prompt_tokens,
             response_tokens |-> c.total_response_tokens,
             breakdown |->
                 [prompt_audio_tokens |-> c.prompt_audio_tokens,
                  prompt_text_tokens |-> c.prompt_text_tokens,
                  response_audio_tokens |-> c.response_audio_tokens,
                  response_text_tokens |-> c.response_text_tokens],
             prompt_details |-> c.all_prompt_details,
             response_details |-> c.all_response_details]

(* ------------------------------ state ----------------------------------- *)
VARIABLES
    \* deployment: Python >= 3.11 (asyncio.TaskGroup) or the compatibility
    \* TaskGroup class; the module-level supabase client or None
    py311, supabase,
    \* ExotelGeminiBridge.active_sessions and the telephony socket
    active_sessions, wsState, closeKind,
    \* GeminiSession fields
    stream_sid, call_sid, sequence_number, audio_chunk_counter, audio_buffer,
    gemini_session, conversation_tokens,
    \* TranscriptManager: exists or None, transcript_data["conversation"]
    transcript_manager, conversation, finalized,
    \* position of run() and of the three tasks of its TaskGroup
    runPc, inPc, outPc, kaPc,
    \* locals of initialize, receive_from_gemini, send_keep_alive_messages
    initAttempts, retry_count, flushRet,
    keep_alive_counter, ka_retry_count, consecutive_failures,
    \* the tasks created by cleanup() and the tables they write
    postCallStarted, pipePc, attempted, failedStages,
    call_details, exotel_call_details,
    \* frames written to the telephony socket, in order
    sent,
    \* what the environment has done so far
    peerFrames, llmResponses, readErrors, sendFailures, sendFailureBudget,
    audioBudget,
    kaTicks,
    \* history of the session
    startSeen, stopConsumed, llmOpenFailed, exhausted, roundAfterExhausted,
    \* the request of the connection: the value of its `tenant` query
    \* parameter and the segments of its path
    reqQuery, reqPath,
    \* custom_parameters.tenant of the start frame, "None" without one
    start_custom,
    \* GeminiSession.tenant, TranscriptManager.tenant, and the tenant column
    \* of the rows inserted into call_details
    tenant, tm_tenant, row_tenants,
    \* GeminiSession.connection_state
    connection_state,
    \* time.time() - last_buffer_send_time >= buffer_time_threshold
    flush_due,
    \* bytes of LLM audio received since the last clear and the last flush
    fresh_audio,
    \* the last frame the inbound pump has consumed
    last_inbound,
    \* CallTokenAccumulator.tokens, the calls made on the accumulator so far
    \* with the dict each call left, the value get_total_summary returned
    \* last, and the ai_token_usage column of the call's row
    tokens, accumulator_calls, summary, ai_token_usage,
    \* what extract_total_conversation_tokens returned
    conversation_token_data,
    \* ActionService.process_call_actions: its position, the merged call
    \* details and the owner phone it works on, its `results` list, the
    \* requests made to the messaging provider, the rows of the
    \* notifications table and its return value
    actionPc, merged_details, owner_phone, results, send_log, notifications,
    action_ret,
    \* a call of a function that keeps no state: its arguments and what it
    \* returned
    call_args, call_ret

\* the accumulator, the token extraction and the notification dispatch
tokenVars == <<tokens, accumulator_calls, summary, ai_token_usage,
               conversation_token_data>>
callVars == <<call_args, call_ret>>
actionVars == <<actionPc, merged_details, owner_phone, results, send_log,
                notifications, action_ret, callVars>>
sessionVars == <<stream_sid, call_sid, sequence_number, audio_chunk_counter,
                 audio_buffer, gemini_session, conversation_tokens>>
transcriptVars == <<transcript_manager, conversation, finalized>>
taskVars == <<runPc, inPc, outPc, kaPc, initAttempts, retry_count, flushRet,
              keep_alive_counter, ka_retry_count, consecutive_failures>>
pipeVars == <<postCallStarted, pipePc, attempted, failedStages,
              call_details, exotel_call_details>>
\* the deployment, the telephony socket and what the environment has done
ioVars == <<py311, supabase, active_sessions, wsState, closeKind, sent,
            peerFrames, llmResponses, readErrors, sendFailures,
            sendFailureBudget, audioBudget, kaTicks>>
envVars == <<ioVars, tokenVars, actionVars>>
histVars == <<startSeen, stopConsumed, llmOpenFailed, exhausted,
              roundAfterExhausted>>
tenantVars == <<reqQuery, reqPath, start_custom, tenant, tm_tenant,
                row_tenants>>
audioVars == <<flush_due, fresh_audio>>
\* what run() takes from the start frame
startVars == <<start_custom, tenant, tm_tenant, stream_sid, call_sid>>
ctxVars == <<tenantVars, audioVars, connection_state, last_inbound>>
vars == <<sessionVars, transcriptVars, taskVars, pipeVars, envVars, histVars,
          ctxVars>>

SessionId == "session"
Pipes == {1, 2}
\* the stages of the post-call pipeline, in the order of the code
Stages == <<"fetch", "insert", "tokens", "analysis", "notify", "token_save">>
StageIndex(s) == CHOOSE i \in 1..Len(Stages) : Stages[i] = s

\* the greeting and the transcription fragments of the LLM stream
GreetingText == <<"a">>
FragmentTexts == {<<"a">>, <<" ">>}
\* sizes in bytes of the audio chunks the LLM stream delivers
AudioSizes == {1920, 3846}

(* ------------------------- tenant resolution ---------------------------- *)
\* the tenants the connection handler accepts, and its default
KnownTenants == {"saloon", "bakery"}
DefaultTenant == "bakery"
\* the tenant names a request or a start frame may carry
TenantNames == {"saloon", "bakery", "pizzeria"}
\* the path of a request without tenant: /media
DefaultPath == <<"media">>
\* the last segment of a raw path that carries a query string is
\* "<segment>?<query>", which is no tenant name
SegmentWithQuery == "segment?query"

\* path.split('/') of the handler, on the raw path: the query string stays
\* attached to the last segment
path_segments(query, path) ==
    [i \in 1..Len(path) |->
        IF query # "None" /\ i = Len(path) THEN SegmentWithQuery ELSE path[i]]

\* the `for segment in path_segments` loop: the first segment that is a
\* known tenant, "None" when there is none
RECURSIVE first_known_segment(_)
first_known_segment(segs) ==
    IF segs = <<>> THEN "None"
    ELSE IF Head(segs) \in KnownTenants THEN Head(segs)
    ELSE first_known_segment(Tail(segs))

\* start_server.handler: the default, the query parameter when it is a known
\* tenant, and the path segments when the tenant is still the default
handler_tenant(query, path) ==
    LET fromQuery == IF query \in KnownTenants THEN query ELSE DefaultTenant
        fromPath == first_known_segment(path_segments(query, path))
    IN IF fromQuery = DefaultTenant /\ fromPath # "None"
       THEN fromPath ELSE fromQuery

\* run(): custom_parameters.tenant of the start frame replaces self.tenant
start_tenant(current, custom) ==
    IF custom # "None" THEN custom ELSE current

\* the fields of a GeminiSession after __init__, and the objects it works with
FieldsInit ==
    /\ active_sessions = {SessionId}
    /\ wsState = "OPEN" /\ closeKind = "none"
    /\ stream_sid = "None" /\ call_sid = "None"
    /\ sequence_number = 0 /\ audio_chunk_counter = 0 /\ audio_buffer = 0
    /\ gemini_session = "None" /\ conversation_tokens = <<>>
    /\ conversation = <<>> /\ finalized = FALSE
    /\ runPc = "recv" /\ inPc = "idle" /\ outPc = "idle" /\ kaPc = "idle"
    /\ initAttempts = 0 /\ retry_count = 0 /\ flushRet = "reading"
    /\ keep_alive_counter = 0 /\ ka_retry_count = 0 /\ consecutive_failures = 0
    /\ postCallStarted = 0
    /\ pipePc = [p \in Pipes |-> "idle"]
    /\ attempted = [p \in Pipes |-> {}]
    /\ failedStages = [p \in Pipes |-> {}]
    /\ call_details = 0 /\ exotel_call_details = 0
    /\ sent = <<>>
    /\ peerFrames = 0 /\ llmResponses = 0 /\ readErrors = 0
    /\ sendFailures = 0 /\ kaTicks = 0
    /\ startSeen = FALSE /\ stopConsumed = FALSE /\ llmOpenFailed = FALSE
    /\ exhausted = FALSE /\ roundAfterExhausted = FALSE
    /\ tenant = handler_tenant(reqQuery, reqPath)
    /\ start_custom = "None"
    /\ tm_tenant = "None" /\ row_tenants = {}
    /\ connection_state = "initializing"
    /\ flush_due = FALSE /\ fresh_audio = 0
    /\ last_inbound = [event |-> "None", forwarded |-> FALSE,
                       ka_failing |-> FALSE, flushing |-> FALSE]
    /\ tokens = EmptyTokens /\ accumulator_calls = <<>>
    /\ summary = NoneValue /\ ai_token_usage = NoneValue
    /\ conversation_token_data = [called |-> FALSE]
    /\ actionPc = "idle" /\ merged_details = NoneValue
    /\ owner_phone = <<>>
    /\ results = <<>> /\ send_log = <<>> /\ notifications = <<>>
    /\ action_ret = "None"

\* GeminiSession.__init__ and handle_connection up to `await session.run()`
SessionInit ==
    /\ FieldsInit
    /\ call_args = NoneValue /\ call_ret = [returned |-> FALSE]

\* every raw text of at most MaxTextLen characters
Texts == UNION {[1..n -> Chars] : n \in 0..MaxTextLen}

\* a TranscriptManager on its own, from its construction
TranscriptInit ==
    /\ py311 = TRUE
    /\ supabase = TRUE
    /\ sendFailureBudget = 0
    /\ audioBudget = 0
    /\ transcript_manager = TRUE
    /\ reqQuery = "None" /\ reqPath = DefaultPath
    /\ SessionInit

\* a session from its construction to the end of its post-call pipeline,
\* on a telephony socket whose sends fail only once it is closed
Init ==
    /\ py311 \in BOOLEAN
    /\ supabase \in BOOLEAN
    /\ sendFailureBudget = 0
    /\ audioBudget = MaxResponses
    /\ transcript_manager = FALSE
    /\ reqQuery = "None" /\ reqPath = DefaultPath
    /\ SessionInit

\* a call on a telephony socket whose sends fail for a whole round of
\* keep-alive attempts while it is open
KeepAliveInit ==
    /\ py311 \in BOOLEAN
    /\ supabase = TRUE
    /\ sendFailureBudget = ka_max_retries
    /\ audioBudget = 0
    /\ transcript_manager = FALSE
    /\ reqQuery = "None" /\ reqPath = DefaultPath
    /\ SessionInit

\* a call whose sends fail only on a closed socket, for the audio path
FlushInit ==
    /\ py311 = TRUE
    /\ supabase = TRUE
    /\ sendFailureBudget = 0
    /\ audioBudget = MaxAudioResponses
    /\ transcript_manager = FALSE
    /\ reqQuery = "None" /\ reqPath = DefaultPath
    /\ SessionInit

\* a call whose sends may fail on the open socket, for the audio path
DropInit ==
    /\ py311 = TRUE
    /\ supabase = TRUE
    /\ sendFailureBudget = MaxSendFailures
    /\ audioBudget = MaxAudioResponses
    /\ transcript_manager = FALSE
    /\ reqQuery = "None" /\ reqPath = DefaultPath
    /\ SessionInit

\* the paths and the `tenant` query parameters of the requests
RequestPaths == {<<"media">>, <<"saloon">>, <<"saloon", "media">>,
                 <<"pizzeria">>}
RequestQueries == {"None"} \cup TenantNames

\* a session for any of the requests
TenantInit ==
    /\ py311 = TRUE
    /\ supabase = TRUE
    /\ sendFailureBudget = 0
    /\ audioBudget = 0
    /\ transcript_manager = FALSE
    /\ reqQuery \in RequestQueries /\ reqPath \in RequestPaths
    /\ SessionInit

\* the live call, on a telephony socket whose sends may also fail while it
\* is open
CallInit ==
    /\ py311 \in BOOLEAN
    /\ supabase = TRUE
    /\ sendFailureBudget = MaxSendFailures
    /\ audioBudget = MaxResponses
    /\ transcript_manager = FALSE
    /\ reqQuery = "None" /\ reqPath = DefaultPath
    /\ SessionInit

(* ------------------------- GeminiSession.run ---------------------------- *)
\* cleanup(): asyncio.create_task(self.run_post_call_processing()); n is the
\* number of pipeline tasks created so far
cleanup_skip(n) == n

cleanup(n) == n + 1

\* a task that the end of its creator cancels
created_task_cancelled == "cancelled"

\* asyncio.create_task(self.run_post_call_processing()): the task is
\* scheduled on the event loop and belongs neither to the TaskGroup of run
\* nor to the connection handler, whose ends leave it running
created_task == "start"

RECURSIVE cleanup_times(_, _)
cleanup_times(k, n) == IF k = 0 THEN n ELSE cleanup_times(k - 1, cleanup(n))

\* run() returns after k calls of cleanup().  No await separates cleanup()
\* from the return of run, the finally block of handle_connection and the
\* return of the connection handler, after which the server closes the socket.
ReturnFromRun(k) ==
    /\ runPc' = "returned"
    /\ active_sessions' = active_sessions \ {SessionId}
    /\ wsState' = "CLOSED"
    /\ closeKind' = IF wsState = "OPEN" THEN "server" ELSE closeKind
    /\ postCallStarted' = cleanup_times(k, postCallStarted)
    /\ pipePc' = [p \in Pipes |->
                    IF p > postCallStarted /\ p <= postCallStarted'
                    THEN created_task ELSE pipePc[p]]

\* the telephony peer closes the socket, normally or abnormally
PeerClose(kind) ==
    /\ wsState = "OPEN" /\ runPc # "returned"
    /\ wsState' = "CLOSED" /\ closeKind' = kind
    /\ UNCHANGED <<sessionVars, transcriptVars, taskVars, pipeVars, histVars,
                   py311, tokenVars, actionVars,
                   supabase, active_sessions, sent, peerFrames,
                   llmResponses, readErrors, sendFailures, sendFailureBudget,
                   audioBudget,
                   kaTicks, ctxVars>>

runFrame == <<py311, tokenVars, actionVars,
              supabase, sent, peerFrames, llmResponses, readErrors,
              sendFailures,
              sendFailureBudget, audioBudget, kaTicks, inPc, outPc, kaPc,
              retry_count, flushRet,
              keep_alive_counter, ka_retry_count, consecutive_failures,
              attempted, failedStages, call_details, exotel_call_details,
              sequence_number, audio_chunk_counter, audio_buffer,
              conversation_tokens, finalized, stopConsumed, exhausted,
              roundAfterExhausted, reqQuery, reqPath, row_tenants,
              audioVars, connection_state, last_inbound>>

\* websocket.recv() raises on a closed socket: the outer except calls cleanup
RunRecvClosed ==
    /\ runPc \in {"recv", "recv2"} /\ wsState = "CLOSED"
    /\ ReturnFromRun(1)
    /\ UNCHANGED <<runFrame, startVars, gemini_session,
                   transcript_manager, conversation, initAttempts,
                   startSeen, llmOpenFailed>>

\* a message that is not JSON: json.loads raises, the outer except calls
\* cleanup
RunRecvMalformed ==
    /\ runPc \in {"recv", "recv2"} /\ wsState = "OPEN"
    /\ ReturnFromRun(1)
    /\ UNCHANGED <<runFrame, startVars, gemini_session,
                   transcript_manager, conversation, initAttempts,
                   startSeen, llmOpenFailed>>

\* the first message is `connected`: read one more message
RunRecvConnected ==
    /\ runPc = "recv" /\ wsState = "OPEN"
    /\ runPc' = "recv2"
    /\ UNCHANGED <<runFrame, startVars, gemini_session,
                   transcript_manager, conversation, initAttempts,
                   startSeen, llmOpenFailed, active_sessions, wsState,
                   closeKind, postCallStarted, pipePc>>

\* any other event than `start`: "Expected 'start' event", run returns
\* without cleanup
RunRecvUnexpected ==
    /\ runPc \in {"recv", "recv2"} /\ wsState = "OPEN"
    /\ ReturnFromRun(0)
    /\ UNCHANGED <<runFrame, startVars, gemini_session,
                   transcript_manager, conversation, initAttempts,
                   startSeen, llmOpenFailed>>

\* the `start` message: ids and tenant taken from it, TranscriptManager
\* created with the tenant when a call_sid came with it
RunRecvStart(sid, cid, custom) ==
    /\ runPc \in {"recv", "recv2"} /\ wsState = "OPEN"
    /\ stream_sid' = sid /\ call_sid' = cid
    /\ start_custom' = custom
    /\ tenant' = start_tenant(tenant, custom)
    /\ tm_tenant' = IF cid # "None" THEN tenant' ELSE tm_tenant
    /\ transcript_manager' = (cid # "None")
    /\ startSeen' = TRUE
    /\ runPc' = "initialize"
    /\ UNCHANGED <<runFrame, gemini_session, conversation, initAttempts,
                   llmOpenFailed, active_sessions, wsState, closeKind,
                   postCallStarted, pipePc>>

\* initialize(): `if attempt < max_retries - 1` sleeps and retries, else raises
initialize_retry_one_more(attempt) == attempt < init_max_retries

initialize_retry(attempt) == attempt < init_max_retries - 1

\* one attempt of the retry loop of initialize(); initAttempts counts the
\* attempts made so far, and the loop variable ends with the `return` of a
\* successful attempt
RunInitialize(ok) ==
    /\ runPc = "initialize"
    /\ initAttempts' = IF ok THEN 0 ELSE initAttempts + 1
    /\ IF ok
       THEN /\ gemini_session' = "cm" /\ runPc' = "connect"
            /\ UNCHANGED <<llmOpenFailed, active_sessions, wsState, closeKind,
                           postCallStarted, pipePc>>
       ELSE IF initialize_retry(initAttempts)
       THEN UNCHANGED <<gemini_session, runPc, llmOpenFailed, active_sessions,
                        wsState, closeKind, postCallStarted, pipePc>>
       ELSE /\ llmOpenFailed' = TRUE
            /\ ReturnFromRun(1)
            /\ UNCHANGED gemini_session
    /\ UNCHANGED <<runFrame, startVars, transcript_manager,
                   conversation, startSeen>>

\* `async with self.gemini_session as session`: the connection is made here.
\* A failure runs the finally block (cleanup) and then the outer except
\* (cleanup again).
RunConnect(ok) ==
    /\ runPc = "connect"
    /\ IF ok
       THEN /\ gemini_session' = "open" /\ runPc' = "greeting"
            /\ UNCHANGED <<llmOpenFailed, active_sessions, wsState, closeKind,
                           postCallStarted, pipePc>>
       ELSE /\ llmOpenFailed' = TRUE
            /\ ReturnFromRun(2)
            /\ UNCHANGED gemini_session
    /\ UNCHANGED <<runFrame, startVars, transcript_manager,
                   conversation, initAttempts, startSeen>>

\* send_dynamic_initial_greeting, then the three tasks of the TaskGroup are
\* created; delivered is FALSE when both the greeting and the fallback fail
RunGreeting(delivered) ==
    /\ runPc = "greeting"
    /\ conversation' = IF delivered /\ transcript_manager
                       THEN add_to_transcript(conversation, "assistant",
                                              GreetingText)
                       ELSE conversation
    /\ runPc' = "taskgroup"
    /\ inPc' = "loop" /\ outPc' = "loop" /\ kaPc' = "loop"
    /\ UNCHANGED <<sessionVars, transcript_manager, finalized, initAttempts,
                   retry_count, flushRet, keep_alive_counter, ka_retry_count,
                   consecutive_failures, pipeVars, envVars, histVars,
                   ctxVars>>

\* a TaskGroup that is left as soon as the inbound pump has ended
TaskFinished_inbound_only == inPc \in {"done", "failed"}

\* `async with asyncio.TaskGroup()` is left when its three tasks have ended
TaskFinished == /\ inPc \in {"done", "failed"}
                /\ outPc \in {"done", "cancelled"}
                /\ kaPc = "done"

\* asyncio.TaskGroup (Python >= 3.11): a failed task cancels the others
TaskGroupAbort ==
    /\ py311 /\ runPc = "taskgroup" /\ inPc = "failed"
    /\ outPc \notin {"done", "cancelled"} \/ kaPc # "done"
    /\ outPc' = IF outPc = "done" THEN "done" ELSE "cancelled"
    /\ kaPc' = "done"
    /\ UNCHANGED <<sessionVars, transcriptVars, runPc, inPc, initAttempts,
                   retry_count, flushRet, keep_alive_counter, ka_retry_count,
                   consecutive_failures, pipeVars, envVars, histVars,
                   ctxVars>>

\* the TaskGroup and then the LLM context are left; with asyncio.TaskGroup a
\* failed task raises an ExceptionGroup through finally (cleanup) into the
\* outer except (cleanup again); the compatibility TaskGroup swallows it
RunTaskGroupExit ==
    /\ runPc = "taskgroup" /\ TaskFinished
    /\ gemini_session' = "closed"
    /\ ReturnFromRun(IF py311 /\ inPc = "failed" THEN 2 ELSE 1)
    /\ UNCHANGED <<runFrame, startVars, transcript_manager,
                   conversation, initAttempts, startSeen, llmOpenFailed>>

(* ---------------- continue_receiving_from_exotel (inbound) -------------- *)
\* `connected` and `mark` are logged only and behave as `media` does here
InFrames == {"media", "clear", "stop"}

\* a `clear` that leaves the buffer as it is
clear_buffer_keep(buf) == buf

\* self.audio_buffer.clear() of the `clear` branch
clear_buffer(buf) == 0

\* what is recorded of a frame the inbound pump has consumed: the event,
\* whether its audio went to the LLM, whether the keep-alive task had failed
\* a whole round of sends, and whether the outbound pump stood between the
\* media frame and the mark frame of a flush
LogEntry(f) ==
    [event |-> f,
     forwarded |-> (f = "media" /\ gemini_session = "open"),
     ka_failing |-> (consecutive_failures >= ka_max_retries),
     flushing |-> (outPc = "mark")]

\* one message of `async for message in self.websocket`: media goes to the
\* LLM (send_realtime_input raises on a closed channel, which is logged),
\* clear empties the buffer and resets last_buffer_send_time, stop leaves
\* the loop
InboundFrame(f) ==
    /\ runPc = "taskgroup" /\ inPc = "loop" /\ wsState = "OPEN"
    /\ peerFrames < MaxPeerFrames
    /\ peerFrames' = peerFrames + 1
    /\ last_inbound' = LogEntry(f)
    /\ audio_buffer' = IF f = "clear" THEN clear_buffer(audio_buffer)
                       ELSE audio_buffer
    /\ fresh_audio' = IF f = "clear" THEN 0 ELSE fresh_audio
    /\ flush_due' = IF f = "clear" THEN FALSE ELSE flush_due
    /\ inPc' = IF f = "stop" THEN "closing" ELSE "loop"
    /\ stopConsumed' = (stopConsumed \/ f = "stop")
    /\ UNCHANGED <<stream_sid, call_sid, sequence_number, audio_chunk_counter,
                   gemini_session, conversation_tokens, transcriptVars,
                   runPc, outPc, kaPc, initAttempts, retry_count, flushRet,
                   keep_alive_counter, ka_retry_count, consecutive_failures,
                   pipeVars, py311, tokenVars, actionVars,
                   supabase, active_sessions, wsState,
                   closeKind, sent, llmResponses, readErrors, sendFailures,
                   sendFailureBudget, audioBudget, kaTicks, tenantVars,
                   connection_state,
                   startSeen, llmOpenFailed, exhausted, roundAfterExhausted>>

\* the socket is closed: the iteration ends after a normal close and raises
\* ConnectionClosedError (logged and re-raised) after an abnormal one
InboundPeerClosed ==
    /\ runPc = "taskgroup" /\ inPc = "loop" /\ wsState = "CLOSED"
    /\ inPc' = IF closeKind = "error" THEN "closing_err" ELSE "closing"
    /\ UNCHANGED <<sessionVars, transcriptVars, runPc, outPc, kaPc,
                   initAttempts, retry_count, flushRet, keep_alive_counter,
                   ka_retry_count, consecutive_failures, pipeVars, envVars,
                   histVars, ctxVars>>

\* the finally block: `await self.gemini_session.close()`
InboundClose ==
    /\ runPc = "taskgroup" /\ inPc \in {"closing", "closing_err"}
    /\ gemini_session' = IF gemini_session = "None" THEN "None" ELSE "closed"
    /\ inPc' = IF inPc = "closing_err" THEN "failed" ELSE "done"
    /\ UNCHANGED <<stream_sid, call_sid, sequence_number, audio_chunk_counter,
                   audio_buffer, conversation_tokens, transcriptVars,
                   runPc, outPc, kaPc, initAttempts, retry_count, flushRet,
                   keep_alive_counter, ka_retry_count, consecutive_failures,
                   pipeVars, envVars, histVars, ctxVars>>

(* -------------------- receive_from_gemini (outbound) -------------------- *)
\* websocket.send: raises on a closed socket, and may raise on an open one
SendOutcomes ==
    (IF wsState = "OPEN" THEN {TRUE} ELSE {})
    \cup (IF wsState = "CLOSED" \/ sendFailures < sendFailureBudget
          THEN {FALSE} ELSE {})
SendFailed == IF wsState = "OPEN" THEN sendFailures + 1 ELSE sendFailures

\* a media frame: its sequence number and payload size; n is the chunk
\* counter of its flush, raw the buffered bytes it was made of and fresh the
\* bytes received since the last clear and the last flush
MediaFrame(seq, bytes, n, raw, fresh) ==
    [event |-> "media", seq |-> seq, bytes |-> bytes, mark |-> "", n |-> n,
     raw |-> raw, fresh |-> fresh]
MarkFrame(seq, name, n) ==
    [event |-> "mark", seq |-> seq, bytes |-> 0, mark |-> name, n |-> n,
     raw |-> 0, fresh |-> 0]

\* a failed send whose exception reaches the except branch of the turn
after_failed_send_raise(ret) == "retry_sleep"

\* _send_audio_to_exotel returns False on a closed socket, without
\* stream_sid and from its `except Exception` around the sends; the callers
\* ignore the value and go on at ret
after_failed_send(ret) == ret

\* _send_audio_to_exotel up to the end of the first send: buf is
\* len(self.audio_buffer), fresh the part of it received since the last
\* clear, ret the place the caller resumes at, ok the outcome of the send of
\* the media frame.  The buffer is copied and cleared and
\* last_buffer_send_time is reset before the socket is looked at.
FlushMedia(buf, fresh, ret, ok) ==
    /\ audio_chunk_counter' = audio_chunk_counter + 1
    /\ audio_buffer' = 0
    /\ fresh_audio' = 0
    /\ flush_due' = FALSE
    /\ IF wsState # "OPEN" \/ stream_sid = "None"
       THEN /\ outPc' = after_failed_send(ret)
            /\ UNCHANGED <<sequence_number, sent, sendFailures, flushRet>>
       ELSE /\ sequence_number' = sequence_number + 1
            /\ IF ok
               THEN /\ sent' = Append(sent,
                          MediaFrame(sequence_number + 1,
                              resample_audio_len(padded_len(buf),
                                  GEMINI_OUTPUT_SAMPLE_RATE,
                                  EXOTEL_SAMPLE_RATE),
                              audio_chunk_counter + 1, buf, fresh))
                    /\ outPc' = "mark" /\ flushRet' = ret
                    /\ UNCHANGED sendFailures
               ELSE /\ sendFailures' = SendFailed
                    /\ outPc' = after_failed_send(ret)
                    /\ UNCHANGED <<sent, flushRet>>

pumpFrame == <<stream_sid, call_sid, gemini_session, transcript_manager,
               finalized, runPc, inPc, kaPc, initAttempts, keep_alive_counter,
               ka_retry_count, consecutive_failures, pipeVars, py311,
               tokenVars, actionVars,
               supabase, active_sessions, wsState, closeKind, peerFrames,
               sendFailureBudget, audioBudget, kaTicks, startSeen,
               stopConsumed,
               llmOpenFailed, tenantVars, connection_state, last_inbound>>

\* top of `while True`: stop when the socket is closed, else start a turn
PumpLoopTop ==
    /\ runPc = "taskgroup" /\ outPc = "loop"
    /\ IF wsState # "OPEN"
       THEN outPc' = "done" /\ UNCHANGED <<retry_count, roundAfterExhausted>>
       ELSE /\ outPc' = "reading" /\ retry_count' = 0
            /\ roundAfterExhausted' = (roundAfterExhausted \/ exhausted)
    /\ UNCHANGED <<pumpFrame, audioVars, readErrors, sequence_number,
                   audio_chunk_counter, audio_buffer, conversation_tokens,
                   conversation, flushRet,
                   sent, llmResponses, sendFailures, exhausted>>

\* a response that carries usage_metadata: it is appended to
\* self.conversation_tokens
PumpUsage(usage) ==
    /\ runPc = "taskgroup" /\ outPc = "reading" /\ gemini_session = "open"
    /\ llmResponses < MaxResponses
    /\ llmResponses' = llmResponses + 1
    /\ conversation_tokens' = Append(conversation_tokens, usage)
    /\ UNCHANGED <<pumpFrame, audioVars, readErrors, sequence_number,
                   audio_chunk_counter, audio_buffer, conversation, outPc,
                   retry_count, flushRet,
                   sent, sendFailures, exhausted, roundAfterExhausted>>

\* a response that carries text, an input or an output transcription
PumpTranscript(role, text) ==
    /\ runPc = "taskgroup" /\ outPc = "reading" /\ gemini_session = "open"
    /\ llmResponses < MaxResponses
    /\ llmResponses' = llmResponses + 1
    /\ conversation' = IF transcript_manager
                       THEN add_to_transcript(conversation, role, text)
                       ELSE conversation
    /\ UNCHANGED <<pumpFrame, audioVars, readErrors, sequence_number,
                   audio_chunk_counter, audio_buffer, conversation_tokens,
                   outPc, retry_count,
                   flushRet, sent, sendFailures, exhausted,
                   roundAfterExhausted>>

\* a response that carries audio: buffered, and flushed on the size or the
\* time threshold (time_since_last_send >= buffer_time_threshold)
PumpAudio(size, ok) ==
    /\ runPc = "taskgroup" /\ outPc = "reading" /\ gemini_session = "open"
    /\ llmResponses < audioBudget
    /\ llmResponses' = llmResponses + 1
    /\ LET buf == audio_buffer + size
           fresh == fresh_audio + size IN
       IF buf >= buffer_threshold \/ (buf > 0 /\ flush_due)
       THEN FlushMedia(buf, fresh, "reading", ok)
       ELSE /\ audio_buffer' = buf
            /\ fresh_audio' = fresh
            /\ UNCHANGED <<sequence_number, audio_chunk_counter, outPc,
                           flushRet, sent, sendFailures, flush_due>>
    /\ UNCHANGED <<pumpFrame, readErrors, conversation_tokens, conversation,
                   retry_count,
                   exhausted, roundAfterExhausted>>

\* the turn is complete: success = True, back to the top of `while True`
PumpTurnEnd ==
    /\ runPc = "taskgroup" /\ outPc = "reading" /\ gemini_session = "open"
    /\ outPc' = "loop"
    /\ UNCHANGED <<pumpFrame, audioVars, readErrors, sequence_number,
                   audio_chunk_counter, audio_buffer, conversation_tokens,
                   conversation,
                   retry_count, flushRet, sent, llmResponses, sendFailures,
                   exhausted, roundAfterExhausted>>

\* the except branch of the retry loop, after reading the turn has raised
ReadError(ok) ==
    /\ retry_count' = retry_count + 1
    /\ IF retry_count + 1 < turn_max_retries
       THEN /\ outPc' = "retry_sleep"
            /\ UNCHANGED <<sequence_number, audio_chunk_counter, audio_buffer,
                           flushRet, sent, sendFailures, exhausted, audioVars>>
       ELSE /\ exhausted' = TRUE
            /\ IF audio_buffer > 0
               THEN FlushMedia(audio_buffer, fresh_audio, "loop", ok)
               ELSE /\ outPc' = "loop"
                    /\ UNCHANGED <<sequence_number, audio_chunk_counter,
                                   audio_buffer, flushRet, sent, sendFailures,
                                   audioVars>>
    /\ UNCHANGED <<pumpFrame, conversation_tokens, conversation, llmResponses,
                   roundAfterExhausted>>

\* reading from the LLM channel after it was closed raises
PumpReadClosed(ok) ==
    /\ runPc = "taskgroup" /\ outPc = "reading" /\ gemini_session # "open"
    /\ ReadError(ok)
    /\ UNCHANGED readErrors

\* reading from the open LLM channel raises (stream error mid-call)
PumpReadError(ok) ==
    /\ runPc = "taskgroup" /\ outPc = "reading" /\ gemini_session = "open"
    /\ readErrors < MaxReadErrors
    /\ ReadError(ok)
    /\ readErrors' = readErrors + 1

\* asyncio.sleep(retry_delay) is over: next attempt of the turn
PumpRetry ==
    /\ runPc = "taskgroup" /\ outPc = "retry_sleep"
    /\ outPc' = "reading"
    /\ UNCHANGED <<pumpFrame, audioVars, readErrors, sequence_number,
                   audio_chunk_counter, audio_buffer, conversation_tokens,
                   conversation,
                   retry_count, flushRet, sent, llmResponses, sendFailures,
                   exhausted, roundAfterExhausted>>

\* a mark named after the chunk behind the one just sent
mark_chunk_next(counter) == counter + 1

\* the N of the mark name f"audio_chunk_{self.audio_chunk_counter}"
mark_chunk(counter) == counter

\* buffer_time_threshold has passed since last_buffer_send_time
Clock ==
    /\ runPc = "taskgroup" /\ ~flush_due
    /\ flush_due' = TRUE
    /\ UNCHANGED <<sessionVars, transcriptVars, taskVars, pipeVars, envVars,
                   histVars, tenantVars, connection_state, last_inbound,
                   fresh_audio>>

\* _send_audio_to_exotel after the send of the media frame: the mark frame
PumpMark(ok) ==
    /\ runPc = "taskgroup" /\ outPc = "mark"
    /\ sequence_number' = sequence_number + 1
    /\ IF ok
       THEN /\ sent' = Append(sent, MarkFrame(sequence_number + 1,
                                  "audio_chunk",
                                  mark_chunk(audio_chunk_counter)))
            /\ UNCHANGED sendFailures
       ELSE /\ sendFailures' = SendFailed
            /\ UNCHANGED sent
    /\ outPc' = flushRet
    /\ UNCHANGED <<pumpFrame, audioVars, readErrors, audio_chunk_counter,
                   audio_buffer,
                   conversation_tokens, conversation, retry_count, flushRet,
                   llmResponses, exhausted, roundAfterExhausted>>

(* ---------------------- send_keep_alive_messages ------------------------ *)
kaFrame == <<stream_sid, call_sid, audio_chunk_counter, audio_buffer,
             gemini_session, conversation_tokens, transcriptVars, runPc, inPc,
             outPc, initAttempts, retry_count, flushRet, pipeVars, py311,
             tokenVars, actionVars,
             supabase, active_sessions, wsState, closeKind, peerFrames,
             llmResponses, readErrors, sendFailureBudget, audioBudget,
             histVars,
             tenantVars, audioVars, connection_state, last_inbound>>

\* a keep-alive task that gives up after a round of failed sends
ka_after_last_failure_stop == "done"

\* after the last failed attempt of a round the failures are logged ("Don't
\* break here") and the task sleeps for the keep-alive interval
ka_after_last_failure == "interval"

\* one send of the keep-alive mark inside the retry loop; the frame is built
\* from self.sequence_number as it is at the time of the send
KeepAliveSend(ok, counter, retries) ==
    IF ok
    THEN /\ sent' = Append(sent, MarkFrame(sequence_number', "keep_alive",
                                           counter))
         /\ consecutive_failures' = 0
         /\ ka_retry_count' = retries
         /\ kaPc' = "interval"
         /\ UNCHANGED sendFailures
    ELSE /\ sendFailures' = SendFailed
         /\ consecutive_failures' = consecutive_failures + 1
         /\ ka_retry_count' = retries + 1
         /\ kaPc' = IF retries + 1 < ka_max_retries
                    THEN "retry_sleep" ELSE ka_after_last_failure
         /\ UNCHANGED sent

\* top of `while True`: socket check, stream_sid check, then the counters
\* are incremented and the first send is made
KeepAliveLoop(ok) ==
    /\ runPc = "taskgroup" /\ kaPc = "loop"
    /\ IF wsState # "OPEN"
       THEN /\ kaPc' = "done"
            /\ UNCHANGED <<sequence_number, keep_alive_counter, ka_retry_count,
                           consecutive_failures, sent, sendFailures>>
       ELSE IF stream_sid = "None"
       THEN /\ kaPc' = "wait_sid"
            /\ UNCHANGED <<sequence_number, keep_alive_counter, ka_retry_count,
                           consecutive_failures, sent, sendFailures>>
       ELSE /\ keep_alive_counter' = keep_alive_counter + 1
            /\ sequence_number' = sequence_number + 1
            /\ KeepAliveSend(ok, keep_alive_counter + 1, 0)
    /\ UNCHANGED <<kaFrame, kaTicks>>

\* asyncio.sleep(retry_delay) is over: the send is tried again
KeepAliveRetry(ok) ==
    /\ runPc = "taskgroup" /\ kaPc = "retry_sleep"
    /\ UNCHANGED <<sequence_number, keep_alive_counter>>
    /\ KeepAliveSend(ok, keep_alive_counter, ka_retry_count)
    /\ UNCHANGED <<kaFrame, kaTicks>>

\* asyncio.sleep(0.5) while stream_sid is not set
KeepAliveWaitSid ==
    /\ runPc = "taskgroup" /\ kaPc = "wait_sid"
    /\ kaPc' = "loop"
    /\ UNCHANGED <<kaFrame, kaTicks, sequence_number, keep_alive_counter,
                   ka_retry_count, consecutive_failures, sent, sendFailures>>

\* asyncio.sleep(keep_alive_interval) is over; the expiries on an open
\* socket are the ones counted
KeepAliveWake ==
    /\ runPc = "taskgroup" /\ kaPc = "interval"
    /\ wsState # "OPEN" \/ kaTicks < MaxKeepAliveTicks
    /\ kaTicks' = IF wsState = "OPEN" THEN kaTicks + 1 ELSE kaTicks
    /\ kaPc' = "loop"
    /\ UNCHANGED <<kaFrame, sequence_number, keep_alive_counter,
                   ka_retry_count, consecutive_failures, sent, sendFailures>>

(* ------------------- run_post_call_processing --------------------------- *)
\* a call with `given` positional arguments of a function that takes
\* `params` raises TypeError
CallRaisesTypeError(given, params) == given # params

\* CallTokenAccumulator (ai_token_tracker.py) defines add_conversation_tokens,
\* add_analysis_tokens and add_whatsapp_tokens, and no
\* add_aggregated_conversation_tokens: the call raises AttributeError
AccumulatorMethods ==
    {"add_conversation_tokens", "add_analysis_tokens", "add_whatsapp_tokens",
     "get_total_summary", "save_to_database"}

pipeFrame == <<stream_sid, call_sid, sequence_number, audio_chunk_counter,
               audio_buffer, conversation_tokens, transcript_manager,
               taskVars, postCallStarted, envVars, histVars, reqQuery,
               reqPath, start_custom, tenant, tm_tenant, audioVars,
               connection_state,
               last_inbound>>

FetchOutcomes == {"ok", "http_error", "no_call", "no_credentials"}

\* a pipeline that goes from the fetch straight to the analysis
after_fetch_analyze == "analyze"

\* run_post_call_processing after stage 1: `if self.transcript_manager:
\* await self.transcript_manager.save_transcript_and_analyze()`
after_fetch == "save"

\* print_token_summary, then stage 1: fetch_and_store_exotel_details when a
\* call_sid is known.  It returns early without credentials and without a
\* `Call` envelope; otherwise it ends by closing the LLM session and
\* clearing the reference.
PostCallFetch(p, outcome) ==
    /\ pipePc[p] = "start"
    /\ pipePc' = [pipePc EXCEPT ![p] = after_fetch]
    /\ IF call_sid = "None"
       THEN UNCHANGED <<attempted, failedStages, exotel_call_details,
                        gemini_session>>
       ELSE /\ attempted' = [attempted EXCEPT ![p] = @ \cup {"fetch"}]
            /\ failedStages' =
                 [failedStages EXCEPT ![p] =
                    IF outcome = "ok" /\ supabase THEN @ ELSE @ \cup {"fetch"}]
            /\ exotel_call_details' =
                 IF outcome = "ok" /\ supabase
                 THEN exotel_call_details + 1 ELSE exotel_call_details
            /\ gemini_session' =
                 IF outcome \in {"no_call", "no_credentials"}
                 THEN gemini_session ELSE "None"
    /\ UNCHANGED <<pipeFrame, conversation, finalized, call_details,
                   row_tenants>>

InsertOutcomes == {"ok", "no_data", "exception"}

\* where save_transcript_and_analyze continues after the except branch of
\* the token extraction ("Continue with analysis even if token extraction
\* fails")
after_token_error_return == "final"

after_token_error == "analyze"

\* stage 2 and 3: save_transcript_and_analyze up to the await of
\* analyze_transcript: the two early returns, the merge, the insert into
\* call_details and the aggregation of the conversation tokens
PostCallSave(p, outcome) ==
    /\ pipePc[p] = "save"
    /\ IF ~transcript_manager
       THEN /\ pipePc' = [pipePc EXCEPT ![p] = "final"]
            /\ UNCHANGED <<attempted, failedStages, conversation, finalized,
                           call_details, row_tenants>>
       ELSE IF ~supabase \/ conversation = <<>>
       THEN /\ pipePc' = [pipePc EXCEPT ![p] = "final"]
            /\ attempted' = [attempted EXCEPT ![p] = @ \cup {"insert"}]
            /\ failedStages' = [failedStages EXCEPT ![p] = @ \cup {"insert"}]
            /\ UNCHANGED <<conversation, finalized, call_details,
                           row_tenants>>
       ELSE /\ conversation' = merge_consecutive_messages(conversation)
            /\ finalized' = TRUE
            /\ IF outcome = "ok"
               THEN /\ call_details' = call_details + 1
                    /\ row_tenants' = row_tenants \cup {tm_tenant}
                    /\ attempted' =
                         [attempted EXCEPT ![p] = @ \cup {"insert", "tokens"}]
                    /\ failedStages' =
                         [failedStages EXCEPT ![p] = @ \cup {"tokens"}]
                    /\ pipePc' =
                         [pipePc EXCEPT ![p] =
                            IF conversation_tokens = <<>> THEN "analyze"
                            ELSE IF "add_aggregated_conversation_tokens"
                                       \in AccumulatorMethods
                            THEN "analyze"
                            ELSE after_token_error]
               ELSE /\ attempted' = [attempted EXCEPT ![p] = @ \cup {"insert"}]
                    /\ failedStages' =
                         [failedStages EXCEPT ![p] = @ \cup {"insert"}]
                    /\ pipePc' = [pipePc EXCEPT ![p] = "final"]
                    /\ UNCHANGED <<call_details, row_tenants>>
    /\ UNCHANGED <<pipeFrame, gemini_session, exotel_call_details>>

\* stage 4: analyze_transcript is called with four positional arguments and
\* takes three, the TypeError is caught by the except branch around the
\* analysis, the update, the notifications and the token save
PostCallAnalyze(p) ==
    /\ pipePc[p] = "analyze"
    /\ attempted' = [attempted EXCEPT ![p] = @ \cup {"analysis"}]
    /\ IF CallRaisesTypeError(analyze_transcript_args,
                              analyze_transcript_params)
       THEN /\ failedStages' = [failedStages EXCEPT ![p] = @ \cup {"analysis"}]
            /\ pipePc' = [pipePc EXCEPT ![p] = "final"]
       ELSE /\ UNCHANGED failedStages
            /\ pipePc' = [pipePc EXCEPT ![p] = "update"]
    /\ UNCHANGED <<pipeFrame, gemini_session, conversation, finalized,
                   call_details, exotel_call_details, row_tenants>>

\* the final resource cleanup: the LLM session is closed and cleared
PostCallFinal(p) ==
    /\ pipePc[p] = "final"
    /\ pipePc' = [pipePc EXCEPT ![p] = "done"]
    /\ gemini_session' = "None"
    /\ UNCHANGED <<pipeFrame, attempted, failedStages, conversation,
                   finalized, call_details, exotel_call_details, row_tenants>>

(* --------------------------- specification ------------------------------ *)
RunStep ==
    \/ RunRecvClosed
    \/ RunRecvMalformed
    \/ RunRecvConnected
    \/ RunRecvUnexpected
    \/ \E sid \in {"None", "S1"}, cid \in {"None", "C1"} :
          RunRecvStart(sid, cid, "None")
    \/ \E ok \in BOOLEAN : RunInitialize(ok)
    \/ \E ok \in BOOLEAN : RunConnect(ok)
    \/ \E delivered \in BOOLEAN : RunGreeting(delivered)
    \/ TaskGroupAbort
    \/ RunTaskGroupExit

InboundStep ==
    \/ \E f \in InFrames : InboundFrame(f)
    \/ InboundPeerClosed
    \/ InboundClose

PumpControlStep ==
    \/ PumpLoopTop
    \/ PumpTurnEnd
    \/ \E ok \in SendOutcomes : PumpReadClosed(ok)
    \/ PumpRetry

PumpTextStep ==
    \/ \E usage \in ReportedUsage : PumpUsage(usage)
    \/ \E role \in Roles, text \in FragmentTexts : PumpTranscript(role, text)

PumpAudioStep ==
    \/ \E size \in AudioSizes, ok \in SendOutcomes : PumpAudio(size, ok)
    \/ \E ok \in SendOutcomes : PumpReadError(ok)
    \/ \E ok \in SendOutcomes : PumpMark(ok)

KeepAliveStep ==
    \/ \E ok \in SendOutcomes : KeepAliveLoop(ok)
    \/ KeepAliveWaitSid
    \/ KeepAliveWake

PostCallStep ==
    \/ \E p \in Pipes, outcome \in FetchOutcomes : PostCallFetch(p, outcome)
    \/ \E p \in Pipes, outcome \in InsertOutcomes : PostCallSave(p, outcome)
    \/ \E p \in Pipes : PostCallAnalyze(p)
    \/ \E p \in Pipes : PostCallFinal(p)

\* the session and its post-call pipeline
Next ==
    \/ RunStep
    \/ InboundStep
    \/ PumpControlStep
    \/ PumpTextStep
    \/ KeepAliveStep
    \/ PostCallStep
    \/ \E kind \in {"ok", "error"} : PeerClose(kind)

Spec == Init /\ [][Next]_vars

\* the live call: audio from the LLM, read errors, failing sends
CallNext ==
    \/ RunStep
    \/ InboundStep
    \/ PumpControlStep
    \/ PumpAudioStep
    \/ KeepAliveStep
    \/ \E ok \in SendOutcomes : KeepAliveRetry(ok)
    \/ \E kind \in {"ok", "error"} : PeerClose(kind)

CallSpec == CallInit /\ [][CallNext]_vars

\* the call up to the return of run, with an LLM stream that delivers
\* nothing, under the scheduling of the event loop: a task that can take a
\* step takes it, a sleep ends, a read from a closed channel raises.
\* Nothing obliges the peer to send a frame or to close the socket.
StopNext ==
    \/ RunStep
    \/ InboundStep
    \/ PumpControlStep
    \/ KeepAliveStep
    \/ \E kind \in {"ok", "error"} : PeerClose(kind)

StopFairness ==
    /\ WF_vars(RunStep)
    /\ WF_vars(InboundPeerClosed \/ InboundClose)
    /\ WF_vars(PumpControlStep)
    /\ WF_vars(KeepAliveStep)

StopSpec == Init /\ [][StopNext]_vars /\ StopFairness

\* the same call with its pipeline, under the scheduling of the event loop:
\* a pipeline task that can take a step is run (its awaits are a request
\* with a timeout, database calls and a call that raises).  Nothing obliges
\* the session to end.
PipelineNext ==
    \/ StopNext
    \/ PostCallStep

PipelineFairness == WF_vars(PostCallStep)

PipelineSpec == Init /\ [][PipelineNext]_vars /\ PipelineFairness

\* the keep-alive task with its retry rounds, beside the two pumps
KeepAliveNext ==
    \/ RunStep
    \/ InboundStep
    \/ PumpControlStep
    \/ KeepAliveStep
    \/ \E ok \in SendOutcomes : KeepAliveRetry(ok)
    \/ \E kind \in {"ok", "error"} : PeerClose(kind)

KeepAliveSpec == KeepAliveInit /\ [][KeepAliveNext]_vars

\* the audio path of a call, from the start frame to the end of the two
\* pumps, under the scheduling of the event loop: the pumps take their
\* steps and time passes; nothing obliges the LLM to deliver another
\* response or the peer to send a frame
FlushNext ==
    \/ \E sid \in {"None", "S1"} : RunRecvStart(sid, "C1", "None")
    \/ \E ok \in BOOLEAN : RunInitialize(ok)
    \/ \E ok \in BOOLEAN : RunConnect(ok)
    \/ \E delivered \in BOOLEAN : RunGreeting(delivered)
    \/ InboundStep
    \/ PumpControlStep
    \/ \E size \in AudioSizes, ok \in SendOutcomes : PumpAudio(size, ok)
    \/ \E ok \in SendOutcomes : PumpMark(ok)
    \/ Clock
    \/ \E kind \in {"ok", "error"} : PeerClose(kind)

FlushFairness ==
    /\ WF_vars(InboundPeerClosed \/ InboundClose)
    /\ WF_vars(PumpControlStep)
    /\ WF_vars(\E ok \in SendOutcomes : PumpMark(ok))
    /\ WF_vars(Clock)

FlushSpec == FlushInit /\ [][FlushNext]_vars /\ FlushFairness

\* the audio path on a socket whose sends may raise
DropSpec == DropInit /\ [][FlushNext]_vars

\* the session of any request, with any tenant in the start frame, up to the
\* end of its post-call pipeline
TenantNext ==
    \/ RunStep
    \/ \E cid \in {"None", "C1"}, custom \in TenantNames :
          RunRecvStart("S1", cid, custom)
    \/ InboundStep
    \/ PumpControlStep
    \/ KeepAliveStep
    \/ PostCallStep
    \/ \E kind \in {"ok", "error"} : PeerClose(kind)

TenantSpec == TenantInit /\ [][TenantNext]_vars

(* ---------------- the TranscriptManager on its own ----------------------- *)
tmFrame == <<sessionVars, transcript_manager, taskVars, pipeVars, envVars,
             histVars, ctxVars>>

\* add_to_transcript(role, text) on a transcript that is not yet saved
AddToTranscript(role, text) ==
    /\ ~finalized /\ Len(conversation) < MaxTurns
    /\ conversation' = add_to_transcript(conversation, role, text)
    /\ UNCHANGED <<tmFrame, finalized>>

\* the merge step of save_transcript_and_analyze, which returns before it
\* on an empty conversation; a second pipeline task runs it a second time
Finalize ==
    /\ conversation # <<>>
    /\ conversation' = merge_consecutive_messages(conversation)
    /\ finalized' = TRUE
    /\ UNCHANGED tmFrame

TranscriptNext ==
    \/ \E role \in Roles, text \in Texts : AddToTranscript(role, text)
    \/ Finalize

TranscriptSpec == TranscriptInit /\ [][TranscriptNext]_vars

(* --------------- the CallTokenAccumulator on its own --------------------- *)
\* an accumulator from its construction
TokenInit ==
    /\ py311 = TRUE
    /\ supabase = TRUE
    /\ sendFailureBudget = 0
    /\ audioBudget = 0
    /\ transcript_manager = TRUE
    /\ reqQuery = "None" /\ reqPath = DefaultPath
    /\ SessionInit

accFrame == <<sessionVars, transcriptVars, taskVars, pipeVars, ioVars,
              histVars, ctxVars, actionVars, conversation_token_data>>

\* the call is noted with the dict it left
record_call(op, usage, after) ==
    Append(accumulator_calls, [op |-> op, usage |-> usage, after |-> after])

AddConversationTokens(usage) ==
    /\ Len(accumulator_calls) < MaxAccumulatorCalls
    /\ tokens' = add_conversation_tokens(tokens, usage, LiveModel)
    /\ accumulator_calls' =
           record_call("add_conversation_tokens", usage, tokens')
    /\ UNCHANGED <<accFrame, summary, ai_token_usage>>

AddAnalysisTokens(usage) ==
    /\ Len(accumulator_calls) < MaxAccumulatorCalls
    /\ tokens' = add_analysis_tokens(tokens, usage, FlashModel)
    /\ accumulator_calls' = record_call("add_analysis_tokens", usage, tokens')
    /\ UNCHANGED <<accFrame, summary, ai_token_usage>>

AddWhatsappTokens(usage) ==
    /\ Len(accumulator_calls) < MaxAccumulatorCalls
    /\ tokens' = add_whatsapp_tokens(tokens, usage, FlashModel)
    /\ accumulator_calls' = record_call("add_whatsapp_tokens", usage, tokens')
    /\ UNCHANGED <<accFrame, summary, ai_token_usage>>

GetTotalSummary ==
    /\ Len(accumulator_calls) < MaxAccumulatorCalls
    /\ summary' = get_total_summary(tokens)
    /\ accumulator_calls' = record_call("get_total_summary", NoneValue, tokens)
    /\ UNCHANGED <<accFrame, tokens, ai_token_usage>>

SaveOutcomes == {"ok", "no_rows", "exception"}

\* save_to_database: nothing is written for an empty accumulator; else the
\* summary is computed and written to the ai_token_usage column of the row
\* of the call; a TypeError of get_total_summary and an exception of the
\* client are caught, an update that matches no row changes nothing
SaveToDatabase(outcome) ==
    /\ Len(accumulator_calls) < MaxAccumulatorCalls
    /\ accumulator_calls' = record_call("save_to_database", NoneValue, tokens)
    /\ IF DOMAIN tokens = {}
       THEN UNCHANGED <<summary, ai_token_usage>>
       ELSE /\ summary' = get_total_summary(tokens)
            /\ ai_token_usage' =
                 IF summary' # TypeError /\ outcome = "ok"
                 THEN summary' ELSE ai_token_usage
    /\ UNCHANGED <<accFrame, tokens>>

TokenNext ==
    \/ \E usage \in ConversationUsage : AddConversationTokens(usage)
    \/ \E usage \in GenerateUsage : AddAnalysisTokens(usage)
    \/ \E usage \in GenerateUsage : AddWhatsappTokens(usage)
    \/ GetTotalSummary
    \/ \E outcome \in SaveOutcomes : SaveToDatabase(outcome)

TokenSpec == TokenInit /\ [][TokenNext]_vars

(* ------------- the extraction of the conversation tokens ----------------- *)
extractFrame == <<stream_sid, call_sid, sequence_number, audio_chunk_counter,
                  audio_buffer, gemini_session, transcriptVars, taskVars,
                  pipeVars, ioVars, histVars, ctxVars, actionVars, tokens,
                  accumulator_calls, summary, ai_token_usage>>

\* receive_from_gemini appends the usage metadata of a response; the
\* extraction runs in the post-call pipeline, after the pumps have ended
CollectUsage(usage) ==
    /\ ~conversation_token_data.called
    /\ Len(conversation_tokens) < MaxUsageRecords
    /\ conversation_tokens' = Append(conversation_tokens, usage)
    /\ UNCHANGED <<extractFrame, conversation_token_data>>

ExtractTokens ==
    /\ conversation_token_data' =
           [called |-> TRUE,
            value |-> extract_total_conversation_tokens(conversation_tokens)]
    /\ UNCHANGED <<extractFrame, conversation_tokens>>

ExtractNext ==
    \/ \E usage \in SessionUsage : CollectUsage(usage)
    \/ ExtractTokens

ExtractSpec == TokenInit /\ [][ExtractNext]_vars

(* ---------------- ActionService.process_call_actions -------------------- *)
\* phone numbers are strings of characters; None and "" are the empty one
Digits == {"0", "1", "2", "3", "4", "5", "6", "7", "8", "9"}
NoPhone == <<>>
CountryCode == <<"9", "1">>
LocalNumber == <<"9", "8", "7", "6", "5", "4", "3", "2", "1", "0">>
PlusNumber == <<"+">> \o CountryCode \o LocalNumber
ZeroNumber == <<"0">> \o LocalNumber
ShortNumber == <<"1", "2", "3", "4", "5">>
\* a ten-digit local number whose first two digits are 9 and 1
LocalNumber91 == <<"9", "1", "2", "3", "4", "5", "6", "7", "8", "0">>
\* os.getenv("OWNER_PHONE", "+919482743864")
DefaultOwnerPhone ==
    <<"+", "9", "1", "9", "4", "8", "2", "7", "4", "3", "8", "6", "4">>

\* ''.join(filter(str.isdigit, str(phone)))
RECURSIVE digits_only(_)
digits_only(phone) ==
    IF phone = <<>> THEN <<>>
    ELSE (IF Head(phone) \in Digits THEN <<Head(phone)>> ELSE <<>>)
         \o digits_only(Tail(phone))

\* str.startswith
starts_with(phone, prefix) ==
    Len(phone) >= Len(prefix) /\ SubSeq(phone, 1, Len(prefix)) = prefix

\* _format_phone_number: None for an empty number and for fewer than ten
\* digits
format_phone_number(phone) ==
    LET digits == digits_only(phone)
    IN IF phone = NoPhone THEN NoPhone
       ELSE IF Len(digits) = 10 THEN CountryCode \o digits
       ELSE IF Len(digits) > 10
       THEN IF starts_with(digits, CountryCode) /\ Len(digits) >= 12
            THEN digits
            ELSE IF starts_with(digits, <<"0">>)
            THEN CountryCode \o Tail(digits)
            ELSE CountryCode \o digits
       ELSE NoPhone

\* the merged call details _fetch_call_details returns, None when neither
\* table has a row of the call: from_number, one of the alternative phone
\* fields, and call_type ("None" while the row was not updated by an
\* analysis)
CallTypes == {"Booking", "Informational", "Others", "None"}
CallDetails ==
    {NoneValue} \cup
    [from_number : {NoPhone, LocalNumber, PlusNumber, ZeroNumber, ShortNumber,
                    LocalNumber91},
     phone : {NoPhone, LocalNumber},
     call_type : CallTypes]
\* branch_head_phone_number of the tenant configuration, empty without one
ConfigPhones == {NoPhone, LocalNumber, LocalNumber91}

\* raw_phone of process_call_actions: from_number, else an alternative field
raw_phone(details) ==
    IF details.from_number # NoPhone THEN details.from_number
    ELSE details.phone

\* the condition of step 5.1 without the call types
customer_notification_due_any_type(customer_phone, call_type) ==
    customer_phone # NoPhone

\* the condition of step 5.1: `customer_phone and call_type in ["Booking",
\* "Informational"]`
customer_notification_due(customer_phone, call_type) ==
    customer_phone # NoPhone /\ call_type \in {"Booking", "Informational"}

\* what a request to the provider can meet
ProviderOutcomes == {"success", "http_4xx", "http_5xx", "network_error"}

\* MSG91Provider.send_message: a response whose status is not 200, an
\* aiohttp.ClientError and any other exception all end in a returned dict
\* with status 'error'; nothing is raised to the caller
send_message(outcome) ==
    [raised |-> FALSE,
     status |-> IF outcome = "success" THEN "success" ELSE "error"]

\* the values process_call_actions keeps in `results`
PyBool(b) == [kind |-> "bool", value |-> b]
PyDict(status) == [kind |-> "dict", status |-> status]
PyException == [kind |-> "exception"]
PyTuple(name, value) == [kind |-> "tuple", name |-> name, value |-> value]
\* isinstance(r, bool) and r
is_true_bool(r) == r.kind = "bool" /\ r.value

\* the number a notification send uses: the number itself when it starts
\* with 91, else the formatted number
send_number(phone) ==
    IF starts_with(phone, CountryCode) THEN phone
    ELSE format_phone_number(phone)

\* the requests made so far for one recipient
sends_to(recipient) ==
    {i \in 1..Len(send_log) : send_log[i].to = recipient}

actionFrame == <<sessionVars, transcriptVars, taskVars, pipeVars, ioVars,
                 histVars, ctxVars, tokenVars, callVars>>

\* steps 1 to 4: the tenant configuration and the call details are fetched;
\* the method returns False without call details and without a customer
\* phone that can be formatted; else the owner phone is the one of the
\* tenant, or the default
ActionFetch(details, config_phone) ==
    /\ actionPc = "idle"
    /\ merged_details' = details
    /\ IF details = NoneValue
       THEN /\ actionPc' = "returned" /\ action_ret' = "False"
            /\ UNCHANGED owner_phone
       ELSE IF format_phone_number(raw_phone(details)) = NoPhone
       THEN /\ actionPc' = "returned" /\ action_ret' = "False"
            /\ UNCHANGED owner_phone
       ELSE /\ actionPc' = "customer"
            /\ owner_phone' = IF config_phone # NoPhone THEN config_phone
                               ELSE DefaultOwnerPhone
            /\ UNCHANGED action_ret
    /\ UNCHANGED <<actionFrame, results, send_log, notifications>>

\* step 5.1: customer_phone is read again from from_number; one attempt of
\* _send_customer_notification under async_retry.  generate_ai_message
\* returns its default components on every failure, so the send is reached
\* whenever the number can be formatted.  An attempt that raises is
\* repeated after a sleep until retry_count exceeds max_retries, then the
\* result is False.
ActionCustomer(outcome) ==
    /\ actionPc = "customer"
    /\ IF customer_notification_due(merged_details.from_number,
                                    merged_details.call_type)
       THEN LET number == send_number(merged_details.from_number)
                response == send_message(outcome)
                retry_count_now == Cardinality(sends_to("customer")) + 1
            IN IF number = NoPhone
               THEN /\ results' = Append(results,
                                         PyTuple("customer", PyBool(FALSE)))
                    /\ actionPc' = "owner"
                    /\ UNCHANGED send_log
               ELSE /\ send_log' =
                         Append(send_log,
                                [to |-> "customer", number |-> number,
                                 template |-> "service_message",
                                 outcome |-> outcome])
                    /\ IF response.raised
                       THEN IF retry_count_now > notify_max_retries
                            THEN /\ results' =
                                      Append(results,
                                             PyTuple("customer",
                                                     PyBool(FALSE)))
                                 /\ actionPc' = "owner"
                            ELSE UNCHANGED <<results, actionPc>>
                       ELSE /\ results' =
                                 Append(results,
                                        PyTuple("customer",
                                                PyBool(response.status
                                                           = "success")))
                            /\ actionPc' = "owner"
       ELSE /\ actionPc' = "owner"
            /\ UNCHANGED <<results, send_log>>
    /\ UNCHANGED <<actionFrame, merged_details, owner_phone, notifications,
                   action_ret>>

\* step 5.2: _send_owner_notification with return_exceptions=True returns
\* False without a number, the dict of send_message, or the exception of a
\* send that raised; the result is appended to `results`
ActionOwner(outcome) ==
    /\ actionPc = "owner"
    /\ LET number == send_number(owner_phone)
           response == send_message(outcome)
       IN IF number = NoPhone
          THEN /\ results' = Append(results, PyTuple("owner", PyBool(FALSE)))
               /\ UNCHANGED send_log
          ELSE /\ send_log' =
                    Append(send_log,
                           [to |-> "owner", number |-> number,
                            template |-> "owner_message",
                            outcome |-> outcome])
               /\ results' =
                    Append(results,
                           PyTuple("owner",
                                   IF response.raised THEN PyException
                                   ELSE PyDict(response.status)))
    /\ actionPc' = "log"
    /\ UNCHANGED <<actionFrame, merged_details, owner_phone, notifications,
                   action_ret>>

\* _log_notification_results and the return of process_call_actions:
\* success_count counts the elements of `results` that are the bool True,
\* one row goes to the notifications table unless the insert raises, and
\* the method returns whether every element of `results` is the bool True
ActionLog(inserted) ==
    /\ actionPc = "log"
    /\ LET success_count ==
               Cardinality({i \in 1..Len(results) : is_true_bool(results[i])})
           total_count == Len(results)
       IN notifications' =
              IF inserted
              THEN Append(notifications,
                          [recipient |-> "multiple",
                           recipient_type |-> "mixed",
                           status |-> IF success_count = total_count
                                      THEN "success" ELSE "partial_failure",
                           success_count |-> success_count,
                           total_count |-> total_count])
              ELSE notifications
    /\ action_ret' =
           IF \A i \in 1..Len(results) : is_true_bool(results[i])
           THEN "True" ELSE "False"
    /\ actionPc' = "returned"
    /\ UNCHANGED <<actionFrame, merged_details, owner_phone, results,
                   send_log>>

ActionNext ==
    \/ \E details \in CallDetails, config_phone \in ConfigPhones :
          ActionFetch(details, config_phone)
    \/ \E outcome \in ProviderOutcomes : ActionCustomer(outcome)
    \/ \E outcome \in ProviderOutcomes : ActionOwner(outcome)
    \/ \E inserted \in BOOLEAN : ActionLog(inserted)

\* one run of process_call_actions, for any call details
ActionSpec == TokenInit /\ [][ActionNext]_vars

(* --------------------------- a dtmf frame -------------------------------- *)
\* the if/elif chain of continue_receiving_from_exotel has the branches
\* connected, media, stop, mark and clear: a frame with any other event,
\* `dtmf` among them, falls through it and the loop reads the next message
DtmfFrame == "dtmf"

DtmfNext ==
    \/ RunStep
    \/ InboundStep
    \/ InboundFrame(DtmfFrame)
    \/ PumpControlStep
    \/ PumpTextStep
    \/ KeepAliveStep
    \/ \E kind \in {"ok", "error"} : PeerClose(kind)

\* a call during which the caller presses keys
DtmfSpec == Init /\ [][DtmfNext]_vars

(* --------------------------- analyze_transcript -------------------------- *)
\* a function that keeps no state is called once: what it returned
NotReturned == [returned |-> FALSE]
Returned(value) == [returned |-> TRUE, value |-> value]

\* the state around a call of such a function, for any of the arguments
FunctionInit(Arguments) ==
    /\ py311 = TRUE
    /\ supabase = TRUE
    /\ sendFailureBudget = 0
    /\ audioBudget = 0
    /\ transcript_manager = TRUE
    /\ reqQuery = "None" /\ reqPath = DefaultPath
    /\ FieldsInit
    /\ call_args \in Arguments /\ call_ret = NotReturned

callFrame == <<sessionVars, transcriptVars, taskVars, pipeVars, ioVars,
               histVars, ctxVars, tokenVars, actionPc, merged_details,
               owner_phone, results, send_log, notifications, action_ret,
               call_args>>

\* fetch_call_type_schema: the enum of the tenant's call_type_schema, or the
\* default list when the row has none or the query fails
DefaultCallTypes ==
    {"Booking", "Status Check", "Cancellation", "Informational", "Others"}
TenantCallTypes == {DefaultCallTypes, {"Booking", "Enquiry"}}

RequiredKeys == {"call_type", "summary", "key_details"}
EmptyDict == <<>>

\* the dicts of the two except branches
JsonErrorResult ==
    [call_type |-> "Others",
     summary |-> "Failed to analyze call due to JSON decoding error",
     key_details |-> EmptyDict]
UnexpectedErrorResult ==
    [call_type |-> "Others",
     summary |-> "Failed to analyze call due to an unexpected error",
     key_details |-> EmptyDict]

\* what the model may answer: generate_content raises, the text is not JSON,
\* the JSON is not an object, or it is an object with any of the required
\* keys and a call type of the tenant, an unknown one, or Others
ModelCallTypes == {"Booking", "Spam", "Others"}
json_value(k, call_type) ==
    IF k = "call_type" THEN call_type
    ELSE IF k = "summary" THEN "Customer asked for a cake"
    ELSE [item |-> "cake"]
JsonObjects ==
    {[k \in S |-> json_value(k, call_type)] :
        S \in SUBSET RequiredKeys, call_type \in ModelCallTypes}
ModelResponses ==
    {[kind |-> "raises"], [kind |-> "not_json"], [kind |-> "not_object"]}
    \cup {[kind |-> "object", value |-> d] : d \in JsonObjects}

Transcripts == {"", "user: one cake please"}

\* analyze_transcript(transcript, tenant, api_key); client is the Supabase
\* client of get_supabase_client or None, call_types what
\* fetch_call_type_schema returned
analyze_transcript(transcript, client, call_types, response) ==
    IF transcript = "" THEN NoneValue
    ELSE IF ~client THEN NoneValue
    ELSE IF response.kind = "raises" THEN UnexpectedErrorResult
    ELSE IF response.kind = "not_json" THEN JsonErrorResult
    ELSE IF response.kind = "not_object" THEN UnexpectedErrorResult
    ELSE IF "call_type" \notin DOMAIN response.value
    THEN UnexpectedErrorResult
    ELSE IF response.value["call_type"] \notin call_types
    THEN [response.value EXCEPT !["call_type"] = "Others"]
    ELSE response.value

AnalyzeArguments ==
    [fn : {"analyze_transcript"}, transcript : Transcripts,
     client : BOOLEAN, call_types : TenantCallTypes,
     response : ModelResponses]

AnalyzeTranscript ==
    /\ call_args.fn = "analyze_transcript" /\ ~call_ret.returned
    /\ call_ret' = Returned(analyze_transcript(call_args.transcript,
                                               call_args.client,
                                               call_args.call_types,
                                               call_args.response))
    /\ UNCHANGED callFrame

\* one call of analyze_transcript, for any transcript, tenant schema and
\* model response
AnalyzeSpec == FunctionInit(AnalyzeArguments) /\ [][AnalyzeTranscript]_vars

(* ---------------------- send_dynamic_initial_greeting -------------------- *)
\* the number of regular expressions in `patterns`
GreetingPatterns == 7
NoMatch == "None"
FallbackGreeting == "Hello there. My name is Aarohi. How may I help you today?"
\* match.group(1).strip() of each pattern on a prompt where it matches
PatternGroups == <<"Namaste! Welcome to the bakery",
                   "Namaste! This is Aarohi from the saloon",
                   "Namaste! You've reached Joy Invite",
                   "Namaste! How are you",
                   "Hi, I want a cake",
                   "Good morning",
                   "Good evening">>
\* a system prompt: the patterns that match it, and the stripped quoted text
\* of its first line with a greeting keyword and a quotation, if any
Prompts ==
    [matches : SUBSET (1..GreetingPatterns),
     line_quote : {NoMatch, "Welcome to our shop"}]
\* tenant_configs.welcome_message, as get_tenant_greeting_config returns it
WelcomeMessages == {NoMatch, "Vanakkam! Welcome to Joy Invite"}

\* extract_greeting_from_prompt: the first pattern of the list that matches,
\* else the quoted text of a keyword line, else None
extract_greeting_from_prompt(prompt) ==
    IF prompt.matches # {}
    THEN PatternGroups[CHOOSE i \in prompt.matches :
                           \A j \in prompt.matches : i <= j]
    ELSE prompt.line_quote

\* the text send_dynamic_initial_greeting passes to send_client_content: the
\* greeting extracted from the prompt or the fallback.  The tenant's
\* welcome_message is not read: get_tenant_greeting_config has no caller.
greeting_message(welcome_message, prompt) ==
    LET extracted == extract_greeting_from_prompt(prompt)
    IN IF extracted # NoMatch THEN extracted ELSE FallbackGreeting

GreetingArguments ==
    [fn : {"send_dynamic_initial_greeting"},
     welcome_message : WelcomeMessages, prompt : Prompts]

SendDynamicInitialGreeting ==
    /\ call_args.fn = "send_dynamic_initial_greeting" /\ ~call_ret.returned
    /\ call_ret' = Returned(greeting_message(call_args.welcome_message,
                                             call_args.prompt))
    /\ UNCHANGED callFrame

\* the greeting of one call, for any tenant configuration and system prompt
GreetingSpec ==
    FunctionInit(GreetingArguments) /\ [][SendDynamicInitialGreeting]_vars

(* -------------------------- _format_phone_number ------------------------- *)
\* raw phone numbers: with and without a plus sign, a leading zero or a
\* country code in front, one to ten digits behind it, and a separator
PhonePrefixes ==
    {<<>>, <<"+">>, <<"0">>, <<"0", "0">>, CountryCode, <<"+">> \o CountryCode}
PhoneSuffixes == {<<>>, <<"-", "7">>}
RawPhones ==
    {prefix \o SubSeq(LocalNumber, 1, n) \o suffix :
        prefix \in PhonePrefixes, n \in 0..Len(LocalNumber),
        suffix \in PhoneSuffixes}

PhoneArguments == [fn : {"_format_phone_number"}, phone : RawPhones]

FormatPhoneNumber ==
    /\ call_args.fn = "_format_phone_number" /\ ~call_ret.returned
    /\ call_ret' = Returned(format_phone_number(call_args.phone))
    /\ UNCHANGED callFrame

\* one call of _format_phone_number, for any raw phone number
PhoneSpec == FunctionInit(PhoneArguments) /\ [][FormatPhoneNumber]_vars

(* ------------------------------ claims ---------------------------------- *)
StartedPipes == {p \in Pipes : p <= postCallStarted}
LaterStages(s) == {Stages[i] : i \in (StageIndex(s) + 1)..Len(Stages)}

\* C1: the sequence numbers of the frames written to the telephony socket
\* (media, audio_chunk marks, keep-alive marks) are strictly increasing and
\* start at 1, in every interleaving of the outbound pump and the
\* keep-alive task
C1_SequenceStrictlyIncreasingFromOne ==
    \A i \in 1..Len(sent) :
        IF i = 1 THEN sent[i].seq = 1 ELSE sent[i].seq > sent[i - 1].seq

\* C2: the post-call pipeline is started at most once per session, and
\* call_details and exotel_call_details get at most one row per call
C2_PostCallAtMostOnce ==
    /\ postCallStarted <= 1
    /\ call_details <= 1
    /\ exotel_call_details <= 1

C4_RunWaitsForPipeline ==
    (runPc = "returned" \/ SessionId \notin active_sessions) =>
        \A p \in StartedPipes : pipePc[p] = "done"

\* C4 as amended: run does not return, and the session is not removed from
\* active_sessions, before the pipeline has been started for a session that
\* saw a start frame, also after an unrecoverable error; the pipeline is a
\* background task that runs its stages only after run has returned
C4_RunStartsPipelineBeforeReturn ==
    /\ (runPc = "returned" \/ SessionId \notin active_sessions) /\ startSeen
           => postCallStarted >= 1
    /\ SessionId \notin active_sessions => runPc = "returned"
    /\ \A p \in Pipes : pipePc[p] # "idle" => runPc = "returned"

\* run has returned after a failed LLM connection and the session is removed
\* while the pipeline it started has not run a stage yet
C4_Witness ==
    /\ runPc = "returned" /\ SessionId \notin active_sessions
    /\ startSeen /\ llmOpenFailed
    /\ postCallStarted >= 1 /\ pipePc[1] = "start"

\* C5: once the inbound pump has consumed a stop frame, the outbound pump
\* and the keep-alive task terminate and the pipeline is started, whether
\* or not the peer closes the socket
C5_StopEndsSession ==
    stopConsumed ~> (/\ outPc \in {"done", "cancelled"}
                     /\ kaPc = "done"
                     /\ postCallStarted >= 1)

\* C6: a turn is tried at most 3 times, and after the third failure the
\* outbound pump does not start a new round of attempts
C6_NoRoundAfterExhaustion ==
    /\ retry_count <= turn_max_retries
    /\ ~roundAfterExhausted

\* C7: initialize makes at most 3 attempts; when opening the LLM channel has
\* failed the caller socket is closed, no call_details row is inserted and
\* no pipeline reaches the analysis behind which notifications are sent
C7_LlmOpenFailureIsFatal ==
    /\ initAttempts <= init_max_retries
    /\ llmOpenFailed =>
           /\ wsState = "CLOSED"
           /\ call_details = 0
           /\ \A p \in Pipes : "analysis" \notin attempted[p]

\* all 3 attempts of initialize have failed for a call with a call_sid and
\* the pipeline has run to its end
C7_Witness ==
    /\ llmOpenFailed /\ initAttempts = init_max_retries
    /\ transcript_manager /\ supabase
    /\ pipePc[1] = "done" /\ "insert" \in attempted[1]

\* C8: after the merge step the conversation has no two adjacent turns of
\* the same role and no turn with an empty text
C8_FinalizedAlternatesNonEmpty ==
    finalized =>
        /\ \A i \in 1..(Len(conversation) - 1) :
               conversation[i].role # conversation[i + 1].role
        /\ \A i \in 1..Len(conversation) : conversation[i].text # <<>>

\* a finalized conversation of two turns, the first merged from fragments
C8_Witness ==
    /\ finalized /\ Len(conversation) = 2
    /\ Len(conversation[1].text) > MaxTextLen

\* C9: merging twice yields the same conversation as merging once
C9_MergeIdempotent ==
    merge_consecutive_messages(merge_consecutive_messages(conversation))
        = merge_consecutive_messages(conversation)

\* a conversation of three turns of one role in a row, not yet merged
C9_Witness ==
    /\ ~finalized /\ Len(conversation) >= 3
    /\ conversation[1].role = conversation[2].role
    /\ conversation[2].role = conversation[3].role

\* C10: the payload of every media frame is a multiple of 320 bytes and at
\* least 3840 bytes long
C10_MediaPayloadSize ==
    \A i \in 1..Len(sent) :
        sent[i].event = "media" =>
            /\ sent[i].bytes % ExotelGranularity = 0
            /\ sent[i].bytes >= min_chunk_size

MediaIndexes == {i \in 1..Len(sent) : sent[i].event = "media"}
ChunkMarkIndexes ==
    {i \in 1..Len(sent) :
        sent[i].event = "mark" /\ sent[i].mark = "audio_chunk"}

\* C11: when the outbound buffer is non-empty and the flush interval has
\* passed since the last flush, the buffer is eventually flushed to the
\* caller of the open socket, also when the LLM delivers no further audio
C11_BufferedAudioIsFlushed ==
    (audio_buffer > 0 /\ flush_due) ~> (audio_buffer = 0 \/ wsState # "OPEN")

\* C12: the step that processes a clear frame leaves the buffer empty and the
\* last-flush timestamp reset, and no audio received before a clear is held
\* or sent after it: the buffer, and the audio of every media frame, holds
\* only bytes received since the last clear
C12_ClearDropsBufferedAudio ==
    /\ [](/\ audio_buffer <= fresh_audio
          /\ \A i \in MediaIndexes : sent[i].raw <= sent[i].fresh)
    /\ [][(peerFrames' # peerFrames /\ last_inbound'.event = "clear")
             => (audio_buffer' = 0 /\ ~flush_due')]_vars

\* a clear was processed between the media frame and the mark frame of a
\* flush, and the buffer is empty
C12_Witness ==
    /\ last_inbound.event = "clear" /\ last_inbound.flushing
    /\ MediaIndexes # {} /\ audio_buffer = 0 /\ ~flush_due

\* C13: once the inbound pump has closed the LLM channel after a stop frame
\* or a socket close, and once the post-call pipeline is started, no audio
\* is left in the outbound buffer
C13_FlushBeforeClose ==
    (inPc \in {"done", "failed"} \/ postCallStarted >= 1) => audio_buffer = 0

\* C14: the mark audio_chunk_N is sent only after the media frame of chunk N,
\* and the chunk counter is incremented once per flush: the media frames
\* carry increasing chunk numbers and no chunk number names two marks
C14_MarkFollowsMedia ==
    /\ \A i \in ChunkMarkIndexes :
           \E j \in MediaIndexes : j < i /\ sent[j].n = sent[i].n
    /\ \A i, j \in MediaIndexes : i < j => sent[i].n < sent[j].n
    /\ \A i, j \in ChunkMarkIndexes : i < j => sent[i].n < sent[j].n
    /\ \A i \in MediaIndexes : sent[i].n <= audio_chunk_counter

\* two chunks were flushed and each media frame was followed by its mark
C14_Witness ==
    /\ Len(sent) = 4
    /\ MediaIndexes = {1, 3} /\ ChunkMarkIndexes = {2, 4}
    /\ sent[2].n = 1 /\ sent[4].n = 2

\* C15: after 3 consecutive failed keep-alive sends the connection state of
\* the session is degraded
C15_FailuresDegrade ==
    consecutive_failures >= max_consecutive_failures
        => connection_state = "degraded"

\* C16: failed keep-alive sends neither end the keep-alive task nor cancel a
\* pump nor end the session: the keep-alive task ends only on a closed
\* socket, the outbound pump is cancelled only by a failed inbound pump, the
\* inbound pump leaves its loop only on a stop frame or a closed socket, and
\* the server closes the socket of a running call only after a stop frame
C16_KeepAliveFailuresAreContained ==
    /\ kaPc = "done" => wsState = "CLOSED"
    /\ outPc = "cancelled" => inPc = "failed"
    /\ inPc \in {"closing", "closing_err", "done", "failed"}
           => (stopConsumed \/ wsState = "CLOSED")
    /\ (closeKind = "server" /\ startSeen /\ ~llmOpenFailed) => stopConsumed

\* a media frame was forwarded to the LLM after a whole round of keep-alive
\* sends had failed on the open socket, and both pumps are still running
C16_Witness ==
    /\ last_inbound.event = "media" /\ last_inbound.forwarded
    /\ last_inbound.ka_failing
    /\ consecutive_failures >= ka_max_retries
    /\ wsState = "OPEN" /\ inPc = "loop" /\ outPc \in {"loop", "reading"}

\* C17: the tenant of the session, of its TranscriptManager and of the rows
\* it inserts into call_details is a known tenant: an override that names no
\* known tenant is not applied
C17_OnlyKnownTenants ==
    /\ tenant \in KnownTenants
    /\ tm_tenant \in KnownTenants \cup {"None"}
    /\ row_tenants \subseteq KnownTenants

\* C18: the tenant is the query parameter if it is a known tenant, else the
\* first path segment that is a known tenant, else custom_parameters.tenant
\* of the start frame, else the default
C18_TenantResolutionOrder ==
    LET fromPath == first_known_segment(reqPath) IN
    tenant = IF reqQuery \in KnownTenants THEN reqQuery
             ELSE IF fromPath # "None" THEN fromPath
             ELSE IF start_custom # "None" THEN start_custom
             ELSE DefaultTenant

\* C19: while run waits for the start frame on an open socket, a frame that
\* is not a start frame does not end the wait: run returns without a start
\* frame only when the socket is closed
C19_NonStartFrameIsSkipped ==
    [][(runPc \in {"recv", "recv2"} /\ runPc' = "returned")
          => wsState = "CLOSED"]_vars

\* C20: when the peer has closed the socket after the start frame without
\* another frame, and the LLM has delivered nothing, no row is inserted into
\* call_details, and the telephony record is fetched only with a call id
C20_StartThenCloseLeavesNoRecord ==
    (/\ startSeen /\ closeKind \in {"ok", "error"}
     /\ peerFrames = 0 /\ llmResponses = 0)
        => /\ call_details = 0
           /\ \A p \in Pipes : "fetch" \in attempted[p] => call_sid # "None"

\* the total of an operation in a summary, 0 for an operation that is absent
entry_total(s, op) == IF op \in DOMAIN s THEN s[op].total_tokens ELSE 0
IsSummary(s) == s # NoneValue /\ s # TypeError
SummaryTotalIsSum(s) ==
    IsSummary(s) =>
        s["total_tokens_all_operations"] =
            entry_total(s, "conversation")
                + entry_total(s, "transcript_analysis")
                + entry_total(s, "whatsapp_generation")

\* C21: in every summary get_total_summary has returned, and in every
\* persisted ai_token_usage value, total_tokens_all_operations is the sum of
\* total_tokens over the operations present among conversation,
\* transcript_analysis and whatsapp_generation; an absent operation
\* contributes 0
C21_SummaryTotalIsSumOfOperations ==
    SummaryTotalIsSum(summary) /\ SummaryTotalIsSum(ai_token_usage)

\* a summary with two operations present and one absent was persisted, with
\* a total above zero
C21_Witness ==
    /\ IsSummary(ai_token_usage)
    /\ Cardinality(DOMAIN ai_token_usage \ {"total_tokens_all_operations"}) = 2
    /\ "whatsapp_generation" \in DOMAIN ai_token_usage
    /\ ai_token_usage["total_tokens_all_operations"] > 2

\* the dict before the i-th call on the accumulator
tokens_before(i) ==
    IF i = 1 THEN EmptyTokens ELSE accumulator_calls[i - 1].after
\* the i-th and the next call are calls of `op` with the same usage metadata
SameCallTwice(op, i) ==
    /\ i + 1 <= Len(accumulator_calls)
    /\ accumulator_calls[i].op = op /\ accumulator_calls[i + 1].op = op
    /\ accumulator_calls[i].usage # NoneValue
    /\ accumulator_calls[i].usage = accumulator_calls[i + 1].usage

\* C22: add_conversation_tokens is idempotent under repeated calls: after two
\* calls with the same usage data the conversation entry equals the entry
\* after one call
C22_AddConversationIdempotent ==
    \A i \in 1..Len(accumulator_calls) :
        SameCallTwice("add_conversation_tokens", i) =>
            accumulator_calls[i + 1].after["conversation"]
                = accumulator_calls[i].after["conversation"]

\* C22 as amended: the first add_conversation_tokens call with usage data
\* stores the entry; every later call with usage data adds its total, input
\* and output counts to the counts of the stored entry and keeps the other
\* fields of the entry, so that two calls with the same usage data on a new
\* accumulator leave twice the counts of one call; a call that meets a
\* total count that is None leaves the stored entry unchanged
C22_AddConversationAccumulates ==
    \A i \in 1..Len(accumulator_calls) :
        LET call == accumulator_calls[i]
            before == tokens_before(i)
        IN (call.op = "add_conversation_tokens" /\ call.usage # NoneValue) =>
             /\ "conversation" \in DOMAIN call.after
             /\ IF "conversation" \notin DOMAIN before
                THEN /\ call.after["conversation"].total_tokens
                          = call.usage.total_token_count
                     /\ call.after["conversation"].input_tokens
                          = call.usage.input_token_count
                     /\ call.after["conversation"].output_tokens
                          = call.usage.output_token_count
                ELSE LET old == before["conversation"]
                         new == call.after["conversation"]
                     IN IF \/ old.total_tokens = NoCount
                           \/ call.usage.total_token_count = NoCount
                        THEN new = old
                        ELSE /\ new.total_tokens = old.total_tokens
                                    + call.usage.total_token_count
                             /\ new.input_tokens = old.input_tokens
                                    + call.usage.input_token_count
                             /\ new.output_tokens = old.output_tokens
                                    + call.usage.output_token_count
                             /\ new.model = old.model
                             /\ DOMAIN new = DOMAIN old

\* two calls with the same usage data were made on a new accumulator and the
\* entry holds twice the total of the first call
C22_Witness ==
    /\ SameCallTwice("add_conversation_tokens", 1)
    /\ accumulator_calls[1].usage.total_token_count = 2
    /\ accumulator_calls[1].after["conversation"].total_tokens = 2
    /\ tokens["conversation"].total_tokens = 4
    /\ tokens["conversation"].input_tokens = 2

\* the entries of the operations other than `op` are the same in the two
\* dicts
OthersUnchanged(op, before, after) ==
    \A other \in (DOMAIN before \cup DOMAIN after) \ {op} :
        /\ other \in DOMAIN before /\ other \in DOMAIN after
        /\ after[other] = before[other]

\* C23: add_analysis_tokens (add_whatsapp_tokens) called twice with the same
\* usage record leaves the transcript_analysis (whatsapp_generation) entry
\* of one call, and a call leaves the entries of the other operations
\* unchanged
C23_AnalysisAndWhatsappReplace ==
    \A i \in 1..Len(accumulator_calls) :
        /\ SameCallTwice("add_analysis_tokens", i) =>
               accumulator_calls[i + 1].after["transcript_analysis"]
                   = accumulator_calls[i].after["transcript_analysis"]
        /\ SameCallTwice("add_whatsapp_tokens", i) =>
               accumulator_calls[i + 1].after["whatsapp_generation"]
                   = accumulator_calls[i].after["whatsapp_generation"]
        /\ accumulator_calls[i].op = "add_analysis_tokens" =>
               OthersUnchanged("transcript_analysis", tokens_before(i),
                               accumulator_calls[i].after)
        /\ accumulator_calls[i].op = "add_whatsapp_tokens" =>
               OthersUnchanged("whatsapp_generation", tokens_before(i),
                               accumulator_calls[i].after)

\* the analysis tokens were added twice with the same usage record behind a
\* conversation entry: the analysis entry holds the total of one call
C23_Witness ==
    /\ Len(accumulator_calls) = 3
    /\ accumulator_calls[1].op = "add_conversation_tokens"
    /\ SameCallTwice("add_analysis_tokens", 2)
    /\ accumulator_calls[2].usage.total_token_count = 2
    /\ tokens["transcript_analysis"].total_tokens = 2
    /\ "conversation" \in DOMAIN tokens

RECURSIVE SeqSum(_)
SeqSum(q) == IF q = <<>> THEN 0 ELSE Head(q) + SeqSum(Tail(q))
\* the sum over the collected records of a count, None counted as 0
FieldSum(counts) == SeqSum([i \in 1..Len(counts) |-> count_of(counts[i])])
\* the tokens of the details of one record whose modality is in `names`
DetailSum(details, names) ==
    SeqSum([j \in 1..Len(details) |->
              IF details[j] # NoneValue /\ details[j].modality \in names
              THEN count_of(details[j].token_count) ELSE 0])
AudioNames == {"AUDIO", "audio"}
TextNames == {"TEXT", "text"}

\* C24: extract_total_conversation_tokens returns no summary when no record
\* was collected, and else the total, prompt and response counts and the
\* audio and text counts of prompt and response, each the sum of the field
\* over all collected records, a field that is absent counted as 0
C24_ExtractSumsAllRecords ==
    conversation_token_data.called =>
        LET r == conversation_token_data.value
            recs == conversation_tokens
            n == Len(conversation_tokens)
        IN IF n = 0 THEN r = NoneValue
           ELSE /\ r # NoneValue
                /\ r.total_tokens =
                     FieldSum([i \in 1..n |-> recs[i].total_token_count])
                /\ r.prompt_tokens =
                     FieldSum([i \in 1..n |-> recs[i].prompt_token_count])
                /\ r.response_tokens =
                     FieldSum([i \in 1..n |-> recs[i].response_token_count])
                /\ r.input_tokens = r.prompt_tokens
                /\ r.output_tokens = r.response_tokens
                /\ r.breakdown.prompt_audio_tokens =
                     SeqSum([i \in 1..n |->
                        DetailSum(recs[i].prompt_tokens_details, AudioNames)])
                /\ r.breakdown.prompt_text_tokens =
                     SeqSum([i \in 1..n |->
                        DetailSum(recs[i].prompt_tokens_details, TextNames)])
                /\ r.breakdown.response_audio_tokens =
                     SeqSum([i \in 1..n |->
                        DetailSum(recs[i].response_tokens_details,
                                  AudioNames)])
                /\ r.breakdown.response_text_tokens =
                     SeqSum([i \in 1..n |->
                        DetailSum(recs[i].response_tokens_details,
                                  TextNames)])

\* two records were collected, one of them without a total count, and the
\* extraction returned the sums over both
C24_Witness ==
    /\ conversation_token_data.called
    /\ Len(conversation_tokens) = 2
    /\ conversation_tokens[1].total_token_count = NoCount
    /\ conversation_token_data.value.total_tokens = 3
    /\ conversation_token_data.value.prompt_tokens = 4
    /\ conversation_token_data.value.breakdown.response_audio_tokens = 2
    /\ conversation_token_data.value.breakdown.prompt_text_tokens = 1

\* the pipelines whose insert into call_details returned a row
InsertedPipes ==
    {p \in Pipes : "insert" \in attempted[p] \ failedStages[p]}

\* C25: once the pipeline of a call that collected usage records is past the
\* aggregation behind an inserted transcript row, the accumulator holds a
\* conversation entry whose total_tokens is the sum of the records'
\* total_token_count, and the summary the finished pipeline has saved
\* holds that entry
C25_ConversationTokensAggregated ==
    \A p \in InsertedPipes :
        (/\ conversation_tokens # <<>>
         /\ pipePc[p] \in {"analyze", "final", "done"})
            => /\ "conversation" \in DOMAIN tokens
               /\ tokens["conversation"].total_tokens =
                    FieldSum([i \in 1..Len(conversation_tokens) |->
                                conversation_tokens[i].total_token_count])
               /\ pipePc[p] = "done" =>
                      /\ IsSummary(ai_token_usage)
                      /\ "conversation" \in DOMAIN ai_token_usage

\* C26: in the pipeline of every call whose transcript row was inserted the
\* analysis runs to a result and the row is updated with call_type and
\* critical_call_details, before notification dispatch is attempted
C26_AnalysisUpdatesRow ==
    \A p \in InsertedPipes :
        /\ pipePc[p] = "done" => "analysis" \in attempted[p] \ failedStages[p]
        /\ "notify" \in attempted[p] =>
               "analysis" \in attempted[p] \ failedStages[p]

\* the recipients with an element in `results`
Attempted(recipient) ==
    \E i \in 1..Len(results) : results[i].name = recipient
\* a request for the recipient was made and the last one succeeded / failed
NotificationSucceeded(recipient) ==
    \E i \in sends_to(recipient) :
        /\ send_log[i].outcome = "success"
        /\ \A j \in sends_to(recipient) : j <= i
NotificationFailed(recipient) ==
    \E i \in sends_to(recipient) :
        /\ send_log[i].outcome # "success"
        /\ \A j \in sends_to(recipient) : j <= i

\* C27: a message is requested for the caller, and a caller result is kept,
\* only when the call_type of the call is Booking or Informational and a
\* caller phone number is available
C27_CustomerOnlyForSupportedTypes ==
    (sends_to("customer") # {} \/ Attempted("customer")) =>
        /\ merged_details.call_type \in {"Booking", "Informational"}
        /\ merged_details.from_number # NoPhone

\* a run has returned that requested a caller message for a Booking call
C27_Witness ==
    /\ sends_to("customer") # {}
    /\ merged_details.call_type = "Booking"
    /\ actionPc = "returned"

\* C28: whenever process_call_actions has run on the details of a call, the
\* owner message was attempted, also for a call_type outside Booking and
\* Informational and without a valid caller phone number
C28_OwnerAlwaysAttempted ==
    (actionPc = "returned" /\ merged_details # NoneValue)
        => Attempted("owner")

\* C29: a send that failed with a network error or a 5xx response was
\* retried up to notify_max_retries times before the result of its
\* recipient was kept as failed
C29_FailedSendIsRetried ==
    \A recipient \in {"customer", "owner"} :
        (/\ Attempted(recipient)
         /\ \E i \in sends_to(recipient) :
                send_log[i].outcome \in {"network_error", "http_5xx"}
         /\ NotificationFailed(recipient))
            => Cardinality(sends_to(recipient)) = 1 + notify_max_retries

\* C30: when the caller send and the owner send both succeeded the
\* notifications row has status success and process_call_actions returned
\* True, and a row has status partial_failure only when at least one send
\* succeeded and at least one failed
C30_StatusReflectsOutcomes ==
    actionPc = "returned" =>
        /\ (/\ NotificationSucceeded("customer")
            /\ NotificationSucceeded("owner")) =>
               /\ action_ret = "True"
               /\ \A i \in 1..Len(notifications) :
                      notifications[i].status = "success"
        /\ \A i \in 1..Len(notifications) :
               notifications[i].status = "partial_failure" =>
                   /\ \E r \in {"customer", "owner"} : NotificationSucceeded(r)
                   /\ \E r \in {"customer", "owner"} : NotificationFailed(r)


\* the summaries of the two error results
GenericSummaries == {JsonErrorResult.summary, UnexpectedErrorResult.summary}
\* the model's answer is not JSON or is an object without a required key
DegradedResponse(response) ==
    \/ response.kind = "not_json"
    \/ /\ response.kind = "object"
       /\ ~(RequiredKeys \subseteq DOMAIN response.value)

\* C31: for a non-empty transcript analyze_transcript returns an object with
\* the keys call_type, summary and key_details whose call_type is one of the
\* tenant's or Others; after an answer that is not JSON or lacks a required
\* key the object has call_type Others, a generic summary and empty
\* key_details
C31_AnalysisResultWellFormed ==
    (call_ret.returned /\ call_args.transcript # "") =>
        LET r == call_ret.value
        IN /\ r # NoneValue
           /\ RequiredKeys \subseteq DOMAIN r
           /\ r["call_type"] \in call_args.call_types \cup {"Others"}
           /\ DegradedResponse(call_args.response) =>
                  /\ r["call_type"] = "Others"
                  /\ r["summary"] \in GenericSummaries
                  /\ r["key_details"] = EmptyDict


\* C32: a dtmf frame consumed while the LLM session is open is forwarded to
\* the LLM, and it ends neither the turn of the outbound pump nor the session
C32_DtmfIsForwarded ==
    [][(peerFrames' # peerFrames /\ last_inbound'.event = DtmfFrame
        /\ gemini_session = "open")
       => /\ last_inbound'.forwarded
          /\ inPc' = "loop" /\ outPc' = outPc /\ runPc' = runPc]_vars


\* C33: the initial greeting is the tenant's welcome_message when one is
\* configured, else the line extracted from the system prompt, else the
\* hardcoded fallback
C33_WelcomeMessageFirst ==
    call_ret.returned =>
        LET extracted == extract_greeting_from_prompt(call_args.prompt)
        IN call_ret.value =
               IF call_args.welcome_message # NoMatch
               THEN call_args.welcome_message
               ELSE IF extracted # NoMatch THEN extracted
               ELSE FallbackGreeting


\* the digits of a raw number without one leading zero
without_leading_zero(phone) ==
    LET digits == digits_only(phone)
    IN IF starts_with(digits, <<"0">>) THEN Tail(digits) ELSE digits

\* C34: _format_phone_number strips the non-digits and one leading zero,
\* puts the country code 91 in front when fewer than 12 digits are left, and
\* returns no number for every other input
C34_PhoneNormalization ==
    call_ret.returned =>
        LET rest == without_leading_zero(call_args.phone)
        IN call_ret.value =
               IF rest # <<>> /\ Len(rest) < Len(CountryCode) + 10
               THEN CountryCode \o rest
               ELSE NoPhone


\* C35: the mark frame of a flush is the frame sent right after the media
\* frame of this flush and carries the next sequence number, also while the
\* keep-alive task is running
C35_FlushPairIsAdjacent ==
    \A i \in ChunkMarkIndexes :
        /\ i > 1
        /\ sent[i - 1].event = "media" /\ sent[i - 1].n = sent[i].n
        /\ sent[i].seq = sent[i - 1].seq + 1


\* the stages a pipeline has behind it at each of its positions, for a call
\* with and without call_sid
FetchStage == IF call_sid = "None" THEN {} ELSE {"fetch"}
SucceededStages(p) == attempted[p] \ failedStages[p]

\* C36: in each run of the pipeline the stages follow one another in the
\* order fetch, insert, token aggregation, analysis, notifications, token
\* save: a stage is started only when the stage before it has finished
C36_StagesInOrder ==
    \A p \in Pipes :
        /\ pipePc[p] \in {"idle", "start"} => attempted[p] = {}
        /\ pipePc[p] = "save" => attempted[p] = FetchStage
        /\ pipePc[p] = "analyze" =>
               attempted[p] = FetchStage \cup {"insert", "tokens"}
        /\ "insert" \in attempted[p] => FetchStage \subseteq attempted[p]
        /\ "tokens" \in attempted[p] => "insert" \in SucceededStages(p)
        /\ "analysis" \in attempted[p] =>
               /\ "insert" \in SucceededStages(p)
               /\ "tokens" \in attempted[p]
        /\ "notify" \in attempted[p] => "analysis" \in SucceededStages(p)
        /\ "token_save" \in attempted[p] => "notify" \in attempted[p]

\* a run of the pipeline has fetched the call record, inserted the
\* transcript, tried the token aggregation and the analysis, and has ended
C36_Witness ==
    /\ pipePc[1] = "done"
    /\ attempted[1] = {"fetch", "insert", "tokens", "analysis"}
    /\ "insert" \in SucceededStages(1)


\* C37: a run of the pipeline, and with it the extraction of the
\* conversation tokens, exists only when the outbound pump has stopped, and
\* from then on no usage record is appended to conversation_tokens
C37_ExtractionAfterPumpStopped ==
    /\ []((\E p \in Pipes : pipePc[p] # "idle")
              => outPc \in {"idle", "done", "cancelled"})
    /\ [][(\E p \in Pipes : pipePc[p] # "idle")
              => conversation_tokens' = conversation_tokens]_vars

\* the LLM has reported usage during the call, the outbound pump has ended
\* and a run of the pipeline is past the aggregation of the tokens
C37_Witness ==
    /\ conversation_tokens # <<>> /\ outPc = "done"
    /\ \E p \in Pipes : "tokens" \in attempted[p]


\* C38: a pipeline that cleanup() has started runs through its stages to its
\* end, whether the caller's socket is closed, the pump tasks are cancelled,
\* the task group is left or run has returned
C38_PipelineNotCancelled ==
    \A p \in Pipes : [](p <= postCallStarted => <>(pipePc[p] = "done"))

\* the peer has closed the socket, the task group has cancelled the other
\* tasks, run has returned, and the pipeline has run to the analysis and
\* ended
C38_Witness ==
    /\ closeKind = "error" /\ outPc = "cancelled" /\ runPc = "returned"
    /\ pipePc[1] = "done" /\ "analysis" \in attempted[1]


\* a flush has been made and its media frame was not sent
FlushDropped ==
    audio_chunk_counter' = audio_chunk_counter + 1 /\ sent' = sent

\* C39: a flush that cannot deliver its media frame (socket closed, no
\* stream_sid, or the send raises) leaves the buffer empty and the outbound
\* pump where it goes on after a flush (reading the turn when the flush
\* followed an audio response, the top of the loop when it followed the last
\* failed attempt of a turn), without an error reaching the retry handling of
\* the turn; a mark that cannot be sent does the same
C39_FailedFlushIsDropped ==
    /\ [][FlushDropped =>
              /\ audio_buffer' = 0
              /\ IF llmResponses' # llmResponses
                 THEN outPc' = "reading" /\ retry_count' = retry_count
                 ELSE outPc' = "loop"]_vars
    /\ [][(outPc = "mark" /\ outPc' # "mark" /\ runPc' = runPc)
              => (outPc' = flushRet /\ retry_count' = retry_count)]_vars

\* the send of the first chunk has raised on the open socket and the second
\* chunk was delivered with its mark
C39_Witness ==
    /\ sendFailures >= 1 /\ audio_chunk_counter = 2
    /\ Len(sent) = 2 /\ sent[1].event = "media" /\ sent[1].n = 2
    /\ sent[2].event = "mark" /\ sent[2].n = 2
    /\ audio_buffer = 0


\* C40: every recipient number passed to MSG91Provider.send_message, for the
\* caller and for the owner, is normalized: digits only, starting with the
\* country code 91 and at least twelve digits long
normalized(number) ==
    /\ \A i \in 1..Len(number) : number[i] \in Digits
    /\ starts_with(number, CountryCode)
    /\ Len(number) >= 12
C40_RecipientsAreNormalized ==
    \A i \in 1..Len(send_log) : normalized(send_log[i].number)

====
